---- MODULE Spec2Model ----
(***************************************************************************)
(* Policy manager: the policy composition and evaluation pipeline.         *)
(*                                                                         *)
(*   internal/service/evaluation.go   EvaluateRequest, evaluatePolicy,     *)
(*                                    mergePatch, deepCopyMap, mapsEqual   *)
(*   internal/service/constraints.go  ConstraintContext                    *)
(*   internal/store/policy.go         PolicyStore.List                     *)
(*   internal/opa/evaluation.go       ParsePolicyDecision                  *)
(*                                                                         *)
(* Go values of type any that hold JSON are tagged records; a Go           *)
(* map[string]any is a TLA+ function from keys to such values.             *)
(***************************************************************************)
EXTENDS Integers, Sequences, FiniteSets, TLC

VARIABLES
    \* ---- mergePatch applied to drawn inputs (SpecPatch)
    pBase, pPatch, pResult, pPc,
    \* ---- the ConstraintContext (constraints.go:15-19)
    fieldConstraints, setBy, spConstraints,
    \* ---- bookkeeping of the last MergeConstraints call (SpecMerge)
    mPc, mCalls, mLast, mOther,
    \* ---- bookkeeping of the MergeSPConstraints and ValidateServiceProvider
    \* ---- calls (SpecProvider): the allow lists merged, and the last call
    spSeen, spLast,
    \* ---- the last ValidatePatch call (SpecValidate)
    vLast,
    \* ---- concurrent EvaluateRequest calls (SpecConcurrent): the locals of
    \* ---- each call, and the ConstraintContext objects
    calls, contexts,
    \* ---- the policy service (SpecPolicy): the operations made so far and
    \* ---- the last one with its result
    svcOps, svcLast,
    \* ---- runServers (SpecServers): the goroutines, the error channel, the
    \* ---- wait group and the shared context, as one record
    lifecycle,
    \* ---- the catalog (the policies table) and the rule runtime
    catalog, runtime,
    \* ---- one EvaluateRequest call: its request, locals and result
    req, ePc, pageToken, page, nextPageToken, idx,
    currentSpec, selectedProvider, response,
    \* ---- what the call did so far
    invoked, visited, lastStep,
    \* ---- writes made to the catalog during the call (SpecCatalog), and the
    \* ---- ids present and enabled ever since the call began
    writes, steady

patchVars == <<pBase, pPatch, pResult, pPc>>
callVars == <<calls, contexts>>
svcVars == <<svcOps, svcLast, lifecycle>>
ctxVars == <<fieldConstraints, setBy, spConstraints>>
mergeVars == <<mPc, mCalls, mLast, mOther, spSeen, spLast, vLast>>
storeVars == <<catalog, runtime>>
evalVars ==
    <<req, ePc, pageToken, page, nextPageToken, idx, currentSpec, selectedProvider,
      response, invoked, visited, lastStep, writes, steady>>
vars == <<patchVars, ctxVars, mergeVars, storeVars, evalVars, callVars, svcVars>>

-----------------------------------------------------------------------------
(* JSON values                                                             *)

Null == [t |-> "null"]

Num(n) == [t |-> "num", n |-> n]

Str(s) == [t |-> "str", s |-> s]

Bool(b) == [t |-> "bool", b |-> b]

Arr(a) == [t |-> "arr", a |-> a]

Map(m) == [t |-> "map", m |-> m]

EmptyMap == <<>>

IsMap(v) == v.t = "map"

\* Every key of the modelled maps (document keys, dotted field paths, schema
\* keywords), in the byte order encoding/json writes the keys of a map in.
KeySeq ==
    <<"allOf", "const", "cpu", "enum", "exclusiveMaximum", "exclusiveMinimum",
      "maxItems", "maxLength", "maxProperties", "maximum",
      "minItems", "minLength", "minProperties", "minimum", "multipleOf",
      "net", "net.zone", "pattern", "region", "type", "zone">>

KeyRank(k) == CHOOSE i \in 1..Len(KeySeq) : KeySeq[i] = k

\* The keys of m as a sequence in ascending order.
RECURSIVE SortedKeysFrom(_, _)
SortedKeysFrom(m, i) ==
    IF i > Len(KeySeq) THEN <<>>
    ELSE (IF KeySeq[i] \in DOMAIN m THEN <<KeySeq[i]>> ELSE <<>>)
         \o SortedKeysFrom(m, i + 1)

SortedKeys(m) == SortedKeysFrom(m, 1)

\* json.Marshal of a map: the members as a sequence of <<key, encoded value>>
\* in sorted key order; of any other value: the value itself.
RECURSIVE jsonMarshal(_)
RECURSIVE jsonMarshalValue(_)
jsonMarshal(m) ==
    LET ks == SortedKeys(m)
    IN  [i \in 1..Len(ks) |-> <<ks[i], jsonMarshalValue(m[ks[i]])>>]

jsonMarshalValue(v) ==
    IF v.t = "map" THEN [t |-> "object", members |-> jsonMarshal(v.m)]
    ELSE IF v.t = "arr"
         THEN [t |-> "array", items |-> [i \in 1..Len(v.a) |-> jsonMarshalValue(v.a[i])]]
         ELSE v

\* json.Unmarshal into a map[string]any.
RECURSIVE jsonUnmarshal(_)
RECURSIVE jsonUnmarshalValue(_)
jsonUnmarshal(e) ==
    LET ks == {e[i][1] : i \in 1..Len(e)}
        at(k) == CHOOSE i \in 1..Len(e) : e[i][1] = k
    IN  [k \in ks |-> jsonUnmarshalValue(e[at(k)][2])]

jsonUnmarshalValue(e) ==
    IF e.t = "object" THEN Map(jsonUnmarshal(e.members))
    ELSE IF e.t = "array"
         THEN Arr([i \in 1..Len(e.items) |-> jsonUnmarshalValue(e.items[i])])
         ELSE e

\* deepCopyMap: a JSON round trip.
deepCopyMap(m) == jsonUnmarshal(jsonMarshal(m))

\* mapsEqual: the two encodings are the same string.
\* A comparison of the top-level key sets only.
mapsEqualKeys(a, b) == DOMAIN a = DOMAIN b

mapsEqual(a, b) == jsonMarshal(a) = jsonMarshal(b)

-----------------------------------------------------------------------------
(* mergePatch (evaluation.go)                                              *)

\* patchIsMap && baseExists && baseIsMap: the loop recurses into key k.
PatchRecurses(result, k, patchValue) ==
    patchValue.t = "map" /\ k \in DOMAIN result /\ result[k].t = "map"

RECURSIVE mergePatch(_, _)
mergePatch(base, patch) ==
    LET result == deepCopyMap(base)
        deleted == {k \in DOMAIN patch : patch[k] = Null}
        kept == (DOMAIN result \cup DOMAIN patch) \ deleted
    IN  [k \in kept |->
            IF k \in DOMAIN patch
            THEN IF PatchRecurses(result, k, patch[k])
                 THEN Map(mergePatch(result[k].m, patch[k].m))
                 ELSE patch[k]
            ELSE result[k]]

\* RFC 7396, section 2: MergePatch(Target, Patch), on values; absent is
\* passed as Null (any non-object target is replaced by an empty object).
RECURSIVE MergePatch7396(_, _)
MergePatch7396(target, patch) ==
    IF patch.t = "map"
    THEN LET tm == IF target.t = "map" THEN target.m ELSE EmptyMap
             deleted == {k \in DOMAIN patch.m : patch.m[k] = Null}
             kept == (DOMAIN tm \cup DOMAIN patch.m) \ deleted
         IN  Map([k \in kept |->
                    IF k \in DOMAIN patch.m
                    THEN MergePatch7396(IF k \in DOMAIN tm THEN tm[k] ELSE Null,
                                        patch.m[k])
                    ELSE tm[k]])
    ELSE patch

-----------------------------------------------------------------------------
(* Inputs of mergePatch                                                    *)

\* All maps from a subset of keys to vals.
MapsOver(keys, vals) == UNION {[d -> vals] : d \in SUBSET keys}

PatchKeys == {"cpu", "net"}

BaseLeaves == {Null, Num(1)}

PatchLeaves == {Null, Num(2)}

NestedOver(leaves) ==
    MapsOver(PatchKeys, leaves \cup {Map(m) : m \in MapsOver(PatchKeys, leaves)})

BaseDocs == NestedOver(BaseLeaves)

PatchDocs == NestedOver(PatchLeaves)

InitPatch ==
    /\ pBase \in BaseDocs
    /\ pPatch \in PatchDocs
    /\ pResult = EmptyMap
    /\ pPc = "drawn"

ApplyPatch ==
    /\ pPc = "drawn"
    /\ pResult' = mergePatch(pBase, pPatch)
    /\ pPc' = "applied"
    /\ UNCHANGED <<pBase, pPatch>>
    /\ UNCHANGED <<ctxVars, mergeVars, storeVars, svcVars, evalVars, callVars>>

-----------------------------------------------------------------------------
(* ConstraintContext: merging schema fragments (constraints.go)            *)

\* The largest number a modelled decision uses in a numeric keyword.
MaxNum == 3

NoPolicy == ""

Max(a, b) == IF a >= b THEN a ELSE b

Min(a, b) == IF a <= b THEN a ELSE b

Abs(a) == IF a < 0 THEN 0 - a ELSE a

\* m with key k set to v.
MapSet(m, k, v) == [x \in DOMAIN m \cup {k} |-> IF x = k THEN v ELSE m[x]]

\* The permutations of a finite set, as sequences: the orders a Go range
\* over a map may visit its keys in.
Perms(S) ==
    {o \in [1..Cardinality(S) -> S] : \A i, j \in 1..Cardinality(S) : o[i] = o[j] => i = j}

deepCopySchemaMap(m) == jsonUnmarshal(jsonMarshal(m))

\* toFloat64: the second result.
toFloat64Ok(v) == v.t = "num"

\* toSlice: the second result.
toSliceOk(v) == v.t = "arr"

jsonValuesEqual(a, b) == jsonMarshalValue(a) = jsonMarshalValue(b)

intersectAnySlices(a, b) ==
    SelectSeq(a, LAMBDA av : \E i \in 1..Len(b) : jsonValuesEqual(av, b[i]))

MinKeywords == {"minimum", "minLength", "minItems", "minProperties"}

MaxKeywords == {"maximum", "maxLength", "maxItems", "maxProperties"}

\* The keywords mergeSchemaKeywords has a case for.
TableKeywords ==
    {"const", "enum", "exclusiveMinimum", "exclusiveMaximum", "pattern", "multipleOf"}
        \cup MinKeywords \cup MaxKeywords

MergeOk(merged) == [ok |-> TRUE, merged |-> merged]

\* &ConstraintConflictError{FieldPath, SetByPolicy, Reason}; the reason is
\* kept as the keyword whose case raised it.
ConstraintConflictError(fieldPath, setByPolicy, keyword) ==
    [ok |-> FALSE, FieldPath |-> fieldPath, SetByPolicy |-> setByPolicy,
     Reason |-> keyword]

\* case "minimum", ...: newNum < existingNum is a conflict.
LoosensLower(newNum, existingNum) == newNum < existingNum

\* An upper bound that is never found to be loosened.
LoosensUpperNever(newNum, existingNum) == FALSE

\* case "maximum", ...: newNum > existingNum is a conflict.
LoosensUpper(newNum, existingNum) == newNum > existingNum

\* case "multipleOf": math.Mod(newNum, existingNum) != 0, existingNum != 0.
NotMultiple(newNum, existingNum) == Abs(newNum) % Abs(existingNum) # 0

\* default: the new value overrides.
OverrideKeyword(merged, keyword, newVal) == MapSet(merged, keyword, newVal)

\* A loop body that takes every keyword's new value as it comes.
mergeKeywordOverriding(merged, keyword, newVal, fieldPath, existingPolicyID) ==
    MergeOk(OverrideKeyword(merged, keyword, newVal))

\* One iteration of the loop of mergeSchemaKeywords over the keywords of new.
mergeKeyword(merged, keyword, newVal, fieldPath, existingPolicyID) ==
    IF keyword \notin DOMAIN merged
    THEN MergeOk(MapSet(merged, keyword, newVal))
    ELSE LET existingVal == merged[keyword]
             bothNum == toFloat64Ok(existingVal) /\ toFloat64Ok(newVal)
             conflict == ConstraintConflictError(fieldPath, existingPolicyID, keyword)
         IN  CASE keyword = "const" ->
                    IF ~jsonValuesEqual(existingVal, newVal) THEN conflict
                    ELSE MergeOk(merged)
               [] keyword = "enum" ->
                    IF toSliceOk(existingVal) /\ toSliceOk(newVal)
                    THEN LET intersected == intersectAnySlices(existingVal.a, newVal.a)
                         IN  IF Len(intersected) = 0 THEN conflict
                             ELSE MergeOk(MapSet(merged, keyword, Arr(intersected)))
                    ELSE MergeOk(merged)
               [] keyword \in MinKeywords \cup {"exclusiveMinimum"} ->
                    IF bothNum
                    THEN IF LoosensLower(newVal.n, existingVal.n) THEN conflict
                         ELSE MergeOk(MapSet(merged, keyword,
                                             Num(Max(existingVal.n, newVal.n))))
                    ELSE MergeOk(merged)
               [] keyword \in MaxKeywords \cup {"exclusiveMaximum"} ->
                    IF bothNum
                    THEN IF LoosensUpper(newVal.n, existingVal.n) THEN conflict
                         ELSE MergeOk(MapSet(merged, keyword,
                                             Num(Min(existingVal.n, newVal.n))))
                    ELSE MergeOk(merged)
               [] keyword = "pattern" ->
                    IF existingVal.t = "str" /\ newVal.t = "str" /\ existingVal # newVal
                    THEN IF "allOf" \in DOMAIN merged /\ merged["allOf"].t = "arr"
                         THEN MergeOk(MapSet(merged, "allOf",
                                 Arr(Append(merged["allOf"].a,
                                            Map([k \in {"pattern"} |-> newVal])))))
                         ELSE MergeOk(MapSet(merged, "allOf",
                                 Arr(<<Map([k \in {"pattern"} |-> existingVal]),
                                       Map([k \in {"pattern"} |-> newVal])>>)))
                    ELSE MergeOk(merged)
               [] keyword = "multipleOf" ->
                    IF bothNum /\ existingVal.n # 0
                    THEN IF NotMultiple(newVal.n, existingVal.n) THEN conflict
                         ELSE MergeOk(MapSet(merged, keyword, newVal))
                    ELSE MergeOk(merged)
               [] OTHER -> MergeOk(OverrideKeyword(merged, keyword, newVal))

\* The loop of mergeSchemaKeywords, visiting the keywords of new in order.
RECURSIVE mergeKeywordsFrom(_, _, _, _, _)
mergeKeywordsFrom(merged, new, order, fieldPath, existingPolicyID) ==
    IF order = <<>> THEN MergeOk(merged)
    ELSE LET r == mergeKeyword(merged, Head(order), new[Head(order)],
                               fieldPath, existingPolicyID)
         IN  IF r.ok
             THEN mergeKeywordsFrom(r.merged, new, Tail(order), fieldPath, existingPolicyID)
             ELSE r

\* mergeSchemaKeywords(existing, new, fieldPath, existingPolicyID); order is
\* the order the range over new visits its keywords in.
mergeSchemaKeywords(existing, new, order, fieldPath, existingPolicyID) ==
    mergeKeywordsFrom(deepCopySchemaMap(existing), new, order, fieldPath, existingPolicyID)

\* A first store that records no policy.
FirstSetByNobody(sb, fieldPath, policyID) == sb

\* The policy recorded for a field path on its first constraint.
FirstSetBy(sb, fieldPath, policyID) == MapSet(sb, fieldPath, policyID)

\* The loop of MergeConstraints over the field paths of newConstraints in
\* pathOrder; kwOrder[p] is the keyword order used for path p.  The receiver
\* is updated in place, so a conflict leaves the paths already visited merged.
\* Result: [fc, sb, err], err = MergeOk(<<>>) or the conflict.
RECURSIVE MergeConstraintsFrom(_, _, _, _, _, _)
MergeConstraintsFrom(fc, sb, newConstraints, policyID, pathOrder, kwOrder) ==
    IF pathOrder = <<>> THEN [fc |-> fc, sb |-> sb, err |-> MergeOk(<<>>)]
    ELSE LET fieldPath == Head(pathOrder)
             schemaRaw == newConstraints[fieldPath]
             rest == Tail(pathOrder)
         IN  IF schemaRaw.t # "map"
             THEN MergeConstraintsFrom(fc, sb, newConstraints, policyID, rest, kwOrder)
             ELSE IF fieldPath \notin DOMAIN fc
             THEN MergeConstraintsFrom(
                      MapSet(fc, fieldPath, deepCopySchemaMap(schemaRaw.m)),
                      FirstSetBy(sb, fieldPath, policyID),
                      newConstraints, policyID, rest, kwOrder)
             ELSE LET r == mergeSchemaKeywords(fc[fieldPath], schemaRaw.m,
                                               kwOrder[fieldPath], fieldPath, sb[fieldPath])
                  IN  IF ~r.ok THEN [fc |-> fc, sb |-> sb, err |-> r]
                      ELSE MergeConstraintsFrom(MapSet(fc, fieldPath, r.merged), sb,
                                                newConstraints, policyID, rest, kwOrder)

\* The visiting orders of one MergeConstraints call: a path order and, for
\* each path that holds a fragment, a keyword order.
PathOrders(newConstraints) == Perms(DOMAIN newConstraints)

KeywordOrders(newConstraints) ==
    LET ps == DOMAIN newConstraints
    IN  {ko \in [ps -> UNION {Perms(IF newConstraints[p].t = "map"
                                     THEN DOMAIN newConstraints[p].m ELSE {}) : p \in ps}] :
            \A p \in ps :
                ko[p] \in Perms(IF newConstraints[p].t = "map"
                                THEN DOMAIN newConstraints[p].m ELSE {})}

-----------------------------------------------------------------------------
(* ConstraintContext: validating values (constraints.go, jsonschema)       *)

\* regexp.MatchString / the pattern keyword, on the modelled strings.
RegexMatches(pattern, str) ==
    CASE pattern = "^a" -> str \in {"aws", "azure"}
      [] pattern = "s$" -> str \in {"aws"}
      [] pattern = "^g" -> str \in {"gcp"}
      [] OTHER -> FALSE

NumericKeywords ==
    MinKeywords \cup MaxKeywords \cup {"exclusiveMinimum", "exclusiveMaximum", "multipleOf"}

CountKeywords == (MinKeywords \cup MaxKeywords) \ {"minimum", "maximum"}

TypeNames == {"null", "boolean", "number", "string", "array", "object"}

TypeOf(v) ==
    CASE v.t = "null" -> "null"
      [] v.t = "bool" -> "boolean"
      [] v.t = "num" -> "number"
      [] v.t = "str" -> "string"
      [] v.t = "arr" -> "array"
      [] v.t = "map" -> "object"

\* compiler.Compile succeeds on the fragment (it is a valid schema).
RECURSIVE SchemaCompiles(_)
SchemaCompiles(f) ==
    /\ \A k \in DOMAIN f \cap NumericKeywords : f[k].t = "num"
    /\ \A k \in DOMAIN f \cap CountKeywords : f[k].t = "num" => f[k].n >= 0
    /\ "multipleOf" \in DOMAIN f => (f["multipleOf"].t = "num" => f["multipleOf"].n > 0)
    /\ "enum" \in DOMAIN f => f["enum"].t = "arr"
    /\ "pattern" \in DOMAIN f => f["pattern"].t = "str"
    /\ "type" \in DOMAIN f => (f["type"].t = "str" /\ f["type"].s \in TypeNames)
    /\ "allOf" \in DOMAIN f =>
          /\ f["allOf"].t = "arr"
          /\ Len(f["allOf"].a) > 0
          /\ \A i \in 1..Len(f["allOf"].a) :
                f["allOf"].a[i].t = "map" /\ SchemaCompiles(f["allOf"].a[i].m)

\* comp.Validate(value) returns nil for a compiled fragment.
RECURSIVE SchemaValidates(_, _)
SchemaValidates(f, v) ==
    LET has(k) == k \in DOMAIN f
        isNum == v.t = "num"
        size == CASE v.t = "str" -> Len(v.s)
                  [] v.t = "arr" -> Len(v.a)
                  [] v.t = "map" -> Cardinality(DOMAIN v.m)
                  [] OTHER -> 0
    IN  /\ has("const") => jsonValuesEqual(v, f["const"])
        /\ has("enum") => \E i \in 1..Len(f["enum"].a) : jsonValuesEqual(v, f["enum"].a[i])
        /\ has("type") => TypeOf(v) = f["type"].s
        /\ (has("minimum") /\ isNum) => v.n >= f["minimum"].n
        /\ (has("maximum") /\ isNum) => v.n <= f["maximum"].n
        /\ (has("exclusiveMinimum") /\ isNum) => v.n > f["exclusiveMinimum"].n
        /\ (has("exclusiveMaximum") /\ isNum) => v.n < f["exclusiveMaximum"].n
        /\ (has("multipleOf") /\ isNum) => v.n % f["multipleOf"].n = 0
        /\ (has("minLength") /\ v.t = "str") => size >= f["minLength"].n
        /\ (has("maxLength") /\ v.t = "str") => size <= f["maxLength"].n
        /\ (has("minItems") /\ v.t = "arr") => size >= f["minItems"].n
        /\ (has("maxItems") /\ v.t = "arr") => size <= f["maxItems"].n
        /\ (has("minProperties") /\ v.t = "map") => size >= f["minProperties"].n
        /\ (has("maxProperties") /\ v.t = "map") => size <= f["maxProperties"].n
        /\ (has("pattern") /\ v.t = "str") => RegexMatches(f["pattern"].s, v.s)
        /\ has("allOf") =>
              \A i \in 1..Len(f["allOf"].a) : SchemaValidates(f["allOf"].a[i].m, v)

\* The value passes the check validatePatchRecursive makes for a field path
\* that has a fragment: the fragment compiles and validates the value.
Admits(schemaMap, value) ==
    SchemaCompiles(schemaMap) /\ SchemaValidates(schemaMap, value)

ConstraintViolation(fieldPath, setByPolicy) ==
    [FieldPath |-> fieldPath, SetByPolicy |-> setByPolicy]

\* fieldPath := key, or prefix + "." + key.
JoinPath(prefix, key) == IF prefix = "" THEN key ELSE prefix \o "." \o key

\* The nested map is walked too.
\* A validation that stops at the top level of the patch.
RecurseIntoNone(value) == FALSE

RecurseInto(value) == value.t = "map"

\* The entries (field path and value) validatePatchRecursive visits, in the
\* orders the loops over the patch and its nested maps can take: a key, then
\* the keys of its nested map, then the keys that follow it.
RECURSIVE PatchWalks(_, _), WalksOfKeys(_, _, _)
PatchWalks(prefix, patch) ==
    UNION {WalksOfKeys(prefix, patch, keys) : keys \in Perms(DOMAIN patch)}

WalksOfKeys(prefix, patch, keys) ==
    IF keys = <<>> THEN {<<>>}
    ELSE LET fieldPath == JoinPath(prefix, Head(keys))
             value == patch[Head(keys)]
         IN  {<<[FieldPath |-> fieldPath, Value |-> value]>> \o nested \o rest :
                 nested \in (IF RecurseInto(value) THEN PatchWalks(fieldPath, value.m)
                             ELSE {<<>>}),
                 rest \in WalksOfKeys(prefix, patch, Tail(keys))}

\* uri := "file:///constraint/" + strings.ReplaceAll(fieldPath, ".", "_"),
\* for the field paths of the model.
SchemaURI(fieldPath) ==
    "file:///constraint/" \o (IF fieldPath = "net.zone" THEN "net_zone" ELSE fieldPath)

\* getOrCompileSchema returns a schema: the field path is in the cache of the
\* call, or its URI is new to the compiler (AddResource refuses a URI it
\* holds) and the fragment compiles.
getOrCompileSchema(added, compiled, fieldPath, schemaMap) ==
    \/ fieldPath \in compiled
    \/ SchemaURI(fieldPath) \notin added /\ SchemaCompiles(schemaMap)

\* validatePatchRecursive over the entries of a walk: the violations appended,
\* as a set.  added holds the URIs given to the compiler, compiled the field
\* paths in the cache.
RECURSIVE validatePatchRecursive(_, _, _, _, _)
validatePatchRecursive(fc, sb, walk, added, compiled) ==
    IF walk = <<>> THEN {}
    ELSE LET fieldPath == Head(walk).FieldPath
             value == Head(walk).Value
         IN  IF fieldPath \notin DOMAIN fc
             THEN validatePatchRecursive(fc, sb, Tail(walk), added, compiled)
             ELSE LET ok == getOrCompileSchema(added, compiled, fieldPath, fc[fieldPath])
                  IN  (IF ok /\ SchemaValidates(fc[fieldPath], value) THEN {}
                       ELSE {ConstraintViolation(fieldPath, sb[fieldPath])})
                      \cup validatePatchRecursive(
                              fc, sb, Tail(walk),
                              IF fieldPath \in compiled THEN added
                              ELSE added \cup {SchemaURI(fieldPath)},
                              IF ok THEN compiled \cup {fieldPath} ELSE compiled)

\* ValidatePatch, visiting the patch as walk does.
ValidatePatch(fc, sb, patch, walk) == validatePatchRecursive(fc, sb, walk, {}, {})

-----------------------------------------------------------------------------
(* ConstraintContext: service provider constraints (constraints.go)        *)

NoSPConstraints == [set |-> FALSE]

AccumulatedSPConstraints(allowList, patterns, setByPolicy) ==
    [set |-> TRUE, AllowList |-> allowList, Patterns |-> patterns, SetBy |-> setByPolicy]

\* An intersection that keeps the newer list whole.
intersectStringSlicesNewest(a, b) == b

\* intersectStringSlices(a, b): the members of b that are in a, in b's order.
intersectStringSlices(a, b) ==
    SelectSeq(b, LAMBDA x : \E i \in 1..Len(a) : a[i] = x)

\* MergeSPConstraints; result [spc, ok].
MergeSPConstraints(spc, allowList, patterns, policyID) ==
    IF Len(allowList) = 0 /\ Len(patterns) = 0 THEN [spc |-> spc, ok |-> TRUE]
    ELSE IF ~spc.set
    THEN [spc |-> AccumulatedSPConstraints(allowList, patterns, policyID), ok |-> TRUE]
    ELSE IF Len(allowList) > 0 /\ Len(spc.AllowList) > 0
    THEN LET intersected == intersectStringSlices(spc.AllowList, allowList)
         IN  IF Len(intersected) = 0 THEN [spc |-> spc, ok |-> FALSE]
             ELSE [spc |-> [spc EXCEPT !.AllowList = intersected,
                                       !.Patterns = spc.Patterns \o patterns],
                   ok |-> TRUE]
    ELSE [spc |-> [spc EXCEPT !.AllowList = IF Len(allowList) > 0 THEN allowList
                                            ELSE spc.AllowList,
                              !.Patterns = spc.Patterns \o patterns],
          ok |-> TRUE]

\* A check of the allow list alone.
ValidateServiceProviderListOnly(spc, provider) ==
    \/ ~spc.set
    \/ provider = ""
    \/ Len(spc.AllowList) > 0 =>
           \E i \in 1..Len(spc.AllowList) : spc.AllowList[i] = provider

\* ValidateServiceProvider returns nil.
ValidateServiceProvider(spc, provider) ==
    \/ ~spc.set
    \/ provider = ""
    \/ /\ Len(spc.AllowList) > 0 =>
              \E i \in 1..Len(spc.AllowList) : spc.AllowList[i] = provider
       /\ \A i \in 1..Len(spc.Patterns) : RegexMatches(spc.Patterns[i], provider)

-----------------------------------------------------------------------------
(* The catalog: PolicyStore.List (store/policy.go)                         *)

\* The policy ids, in ascending (byte) order.
IdSeq == <<"p1", "p2", "p3">>

Ids == {IdSeq[i] : i \in 1..Len(IdSeq)}

IdRank(id) == CHOOSE i \in 1..Len(IdSeq) : IdSeq[i] = id

\* policy_type is a text column: 'GLOBAL' sorts before 'USER'.
TypeRank(policyType) == IF policyType = "GLOBAL" THEN 0 ELSE 1

\* ORDER BY policy_type ASC, priority ASC, id ASC.
\* An order by priority and id that ignores policy_type.
policyLessByPriority(a, b) ==
    \/ a.Priority < b.Priority
    \/ a.Priority = b.Priority /\ IdRank(a.ID) < IdRank(b.ID)

policyLess(a, b) ==
    \/ TypeRank(a.PolicyType) < TypeRank(b.PolicyType)
    \/ /\ a.PolicyType = b.PolicyType
       /\ \/ a.Priority < b.Priority
          \/ a.Priority = b.Priority /\ IdRank(a.ID) < IdRank(b.ID)

RECURSIVE OrderBy(_)
OrderBy(rows) ==
    IF rows = {} THEN <<>>
    ELSE LET first == CHOOSE r \in rows : \A o \in rows \ {r} : policyLess(r, o)
         IN  <<first>> \o OrderBy(rows \ {first})

NoPageToken == <<>>

\* base64(strconv.Itoa(nextOffset)) and its decoding; "" decodes to offset 0.
EncodePageToken(offset) == <<"b64", offset>>

DecodePageToken(token) == IF token = NoPageToken THEN 0 ELSE token[2]

\* WHERE enabled = ?
FilterEnabled(rows, enabled) == {r \in rows : r.Enabled = enabled}

\* The first row after the page's offset that the page holds.
PageStart(offset) == offset + 1

\* PolicyStore.List with Filter.Enabled set, the default order, a page size
\* and a page token: LIMIT pageSize+1 OFFSET offset, trimmed to pageSize.
List(table, enabled, pageSize, token) ==
    LET offset == DecodePageToken(token)
        rows == OrderBy(FilterEnabled({table[id] : id \in DOMAIN table}, enabled))
        found == SubSeq(rows, PageStart(offset), Min(Len(rows), offset + pageSize + 1))
    IN  IF Len(found) > pageSize
        THEN [Policies |-> SubSeq(found, 1, pageSize),
              NextPageToken |-> EncodePageToken(offset + pageSize)]
        ELSE [Policies |-> found, NextPageToken |-> NoPageToken]

\* The page size EvaluateRequest asks for.  The code asks for 1000; the
\* model scales it down so that a catalog of Len(IdSeq) policies spans pages.
EvalPageSize == 2

-----------------------------------------------------------------------------
(* The rule runtime's decision (opa/evaluation.go)                         *)

\* What s.opaClient.EvaluatePolicy returns: (evalResult, nil) ...
Undefined == [Defined |-> FALSE, Result |-> EmptyMap, Err |-> FALSE]

Defined(result) == [Defined |-> TRUE, Result |-> result, Err |-> FALSE]

\* ... or (nil, err): the runtime failed or the request context was cancelled.
EvaluationFailure == [Defined |-> FALSE, Result |-> EmptyMap, Err |-> TRUE]

NoSPC == [set |-> FALSE, AllowList |-> <<>>, Patterns |-> <<>>]

\* The string items of a []any.
StringsOf(arr) == [i \in 1..Len(SelectSeq(arr, LAMBDA x : x.t = "str")) |->
                      SelectSeq(arr, LAMBDA x : x.t = "str")[i].s]

\* A parse that never sees a rejection.
RejectedOfNever(result) == FALSE

\* if rejected, ok := result["rejected"].(bool); ok { decision.Rejected = rejected }
RejectedOf(result) ==
    IF "rejected" \in DOMAIN result /\ result["rejected"].t = "bool"
    THEN result["rejected"].b ELSE FALSE

\* ParsePolicyDecision; a nil map is Null.  The list of patterns is read
\* from "patterns", the member evaluatePolicy ranges over.
ParsePolicyDecision(result) ==
    LET is(k, t) == k \in DOMAIN result /\ result[k].t = t
    IN  [Rejected |-> RejectedOf(result),
         RejectionReason |->
            IF is("rejection_reason", "str") THEN result["rejection_reason"].s ELSE "",
         Patch |-> IF is("patch", "map") THEN result["patch"] ELSE Null,
         Constraints |-> IF is("constraints", "map") THEN result["constraints"] ELSE Null,
         ServiceProviderConstraints |->
            IF is("service_provider_constraints", "map")
            THEN LET spc == result["service_provider_constraints"].m
                     list(k) == IF k \in DOMAIN spc /\ spc[k].t = "arr"
                                THEN StringsOf(spc[k].a) ELSE <<>>
                 IN  [set |-> TRUE, AllowList |-> list("allow_list"),
                      Patterns |-> list("patterns")]
            ELSE NoSPC,
         SelectedProvider |->
            IF is("selected_provider", "str") THEN result["selected_provider"].s ELSE ""]

-----------------------------------------------------------------------------
(* The evaluator (evaluation.go)                                           *)

\* Every entry of the selector is a request label with the same value.
MatchesLabelSelector(selector, labels) ==
    \A k \in DOMAIN selector : k \in DOMAIN labels /\ labels[k] = selector[k]

NoError ==
    [Type |-> "OK", PolicyID |-> "", FieldPath |-> "", SetBy |-> "", Detail |-> "",
     Violations |-> {}]

NewPolicyRejectedError(policyID, reason) ==
    [NoError EXCEPT !.Type = "REJECTED", !.PolicyID = policyID, !.Detail = reason]

NewConstraintConflictError(policyID, fieldPath, setByPolicy, reason) ==
    [NoError EXCEPT !.Type = "POLICY_CONFLICT", !.PolicyID = policyID,
                    !.FieldPath = fieldPath, !.SetBy = setByPolicy, !.Detail = reason]

NewConstraintViolationError(policyID, violations) ==
    [NoError EXCEPT !.Type = "POLICY_CONFLICT", !.PolicyID = policyID,
                    !.Detail = "constraint violation", !.Violations = violations]

NewServiceProviderConstraintError(policyID, detail) ==
    [NoError EXCEPT !.Type = "POLICY_CONFLICT", !.PolicyID = policyID, !.Detail = detail]

NewInternalError(message) == [NoError EXCEPT !.Type = "INTERNAL", !.Detail = message]

\* Step 5 of evaluatePolicy: one MergeSPConstraints call per pattern, or one
\* call for an allow list without patterns.  Result [spc, ok].
RECURSIVE MergeSPPatterns(_, _, _, _)
MergeSPPatterns(spc, allowList, patterns, policyID) ==
    IF patterns = <<>> THEN [spc |-> spc, ok |-> TRUE]
    ELSE LET r == MergeSPConstraints(spc, allowList, <<Head(patterns)>>, policyID)
         IN  IF r.ok THEN MergeSPPatterns(r.spc, allowList, Tail(patterns), policyID)
             ELSE r

MergeDecisionSPC(spc, d, policyID) ==
    IF ~d.set THEN [spc |-> spc, ok |-> TRUE]
    ELSE IF Len(d.Patterns) = 0 /\ Len(d.AllowList) > 0
         THEN MergeSPConstraints(spc, d.AllowList, <<>>, policyID)
         ELSE MergeSPPatterns(spc, d.AllowList, d.Patterns, policyID)

\* What evaluatePolicy returns, and the context it leaves.
StepResult(spec, provider, err, fc, sb, spc) ==
    [currentSpec |-> spec, selectedProvider |-> provider, err |-> err,
     fc |-> fc, sb |-> sb, spc |-> spc]

\* A validation against the context as it was before the decision.
ContextForPatchBefore(before, merged) == before

\* The constraints are merged before the patch is validated.
ContextForPatch(before, merged) == merged

\* A binding that always takes the decision's provider, empty or not.
BindProviderAlways(provider, decisionProvider) == decisionProvider

\* selectedProvider after step 8 for a decision whose provider passed.
BindProvider(provider, decisionProvider) ==
    IF decisionProvider # "" THEN decisionProvider ELSE provider

\* A step that does not look at the error of the runtime call.
RuntimeFailedIgnored(evalResult) == FALSE

\* evalResult, err := s.opaClient.EvaluatePolicy(...); err != nil
RuntimeFailed(evalResult) == evalResult.Err

\* A constraints map that is handed out even when it is empty.
GetConstraintsMapAlways(fc) == Map([p \in DOMAIN fc |-> Map(fc[p])])

\* GetConstraintsMap: nil for an empty context, else a copy of the map.
GetConstraintsMap(fc) ==
    IF Cardinality(DOMAIN fc) = 0 THEN Null ELSE Map([p \in DOMAIN fc |-> Map(fc[p])])

StringArr(strings) == Arr([i \in 1..Len(strings) |-> Str(strings[i])])

\* GetSPConstraintsMap: nil without provider constraints, else a map with
\* the non-empty lists.
GetSPConstraintsMap(spc) ==
    IF ~spc.set THEN Null
    ELSE Map([k \in {x \in {"allow_list"} : Len(spc.AllowList) > 0}
                      \cup {x \in {"patterns"} : Len(spc.Patterns) > 0} |->
                 IF k = "allow_list" THEN StringArr(spc.AllowList)
                 ELSE StringArr(spc.Patterns)])

\* Step 1 of evaluatePolicy: the input of the rule runtime.
OpaInput(spec, provider, fc, spc) ==
    LET constraints == GetConstraintsMap(fc)
        spcMap == GetSPConstraintsMap(spc)
        keys == {"spec", "provider"}
                    \cup {x \in {"constraints"} : constraints # Null}
                    \cup {x \in {"service_provider_constraints"} : spcMap # Null}
    IN  [k \in keys |->
            CASE k = "spec" -> Map(spec)
              [] k = "provider" -> Str(provider)
              [] k = "constraints" -> constraints
              [] k = "service_provider_constraints" -> spcMap]

\* A skip that hands back an empty spec and no provider.
SkipUndefinedCleared(spec, provider, fc, sb, spc) ==
    StepResult(EmptyMap, "", NoError, fc, sb, spc)

\* if !evalResult.Defined { return currentSpec, selectedProvider, nil }
SkipUndefined(spec, provider, fc, sb, spc) ==
    StepResult(spec, provider, NoError, fc, sb, spc)

\* evaluatePolicy for a policy whose evaluation result is evalResult;
\* pathOrder and kwOrder are the orders MergeConstraints visits the
\* decision's constraints in.
evaluatePolicy(policy, evalResult, spec, provider, fc, sb, spc, pathOrder, kwOrder, walk) ==
    IF RuntimeFailed(evalResult)
    THEN StepResult(EmptyMap, "", NewInternalError("Failed to evaluate policy"), fc, sb, spc)
    ELSE
    IF ~evalResult.Defined THEN SkipUndefined(spec, provider, fc, sb, spc)
    ELSE
    LET decision == ParsePolicyDecision(evalResult.Result)
        failed(err, fc2, sb2, spc2) == StepResult(EmptyMap, "", err, fc2, sb2, spc2)
    IN
    IF decision.Rejected
    THEN failed(NewPolicyRejectedError(policy.ID, decision.RejectionReason), fc, sb, spc)
    ELSE
    LET m == IF decision.Constraints # Null
             THEN MergeConstraintsFrom(fc, sb, decision.Constraints.m, policy.ID,
                                       pathOrder, kwOrder)
             ELSE [fc |-> fc, sb |-> sb, err |-> MergeOk(<<>>)]
    IN
    IF ~m.err.ok
    THEN failed(NewConstraintConflictError(policy.ID, m.err.FieldPath,
                                           m.err.SetByPolicy, m.err.Reason),
                m.fc, m.sb, spc)
    ELSE
    LET sp == MergeDecisionSPC(spc, decision.ServiceProviderConstraints, policy.ID)
    IN
    IF ~sp.ok
    THEN failed(NewServiceProviderConstraintError(policy.ID, "allow list"), m.fc, m.sb, sp.spc)
    ELSE
    LET vfc == ContextForPatch(fc, m.fc)
        vsb == ContextForPatch(sb, m.sb)
        violations == IF decision.Patch # Null
                      THEN ValidatePatch(vfc, vsb, decision.Patch.m, walk) ELSE {}
    IN
    IF violations # {}
    THEN failed(NewConstraintViolationError(policy.ID, violations), m.fc, m.sb, sp.spc)
    ELSE
    LET spec2 == IF decision.Patch # Null THEN mergePatch(spec, decision.Patch.m) ELSE spec
    IN
    IF decision.SelectedProvider # ""
       /\ ~ValidateServiceProvider(sp.spc, decision.SelectedProvider)
    THEN failed(NewServiceProviderConstraintError(policy.ID, "provider"), m.fc, m.sb, sp.spc)
    ELSE StepResult(spec2, BindProvider(provider, decision.SelectedProvider), NoError,
                    m.fc, m.sb, sp.spc)

\* A gate that lets every policy through.
LabelGateOpen(policy, request) == TRUE

\* The label gate of the loop of EvaluateRequest.
LabelGate(policy, request) ==
    MatchesLabelSelector(policy.LabelSelector, request.RequestLabels)

\* A status that reports every evaluated spec as changed.
StatusOfModified(input, evaluated) == "MODIFIED"

\* The status of a successful response.
StatusOf(input, evaluated) ==
    IF ~mapsEqual(input, evaluated) THEN "MODIFIED" ELSE "APPROVED"

NoResponse ==
    [err |-> NoError, Status |-> "", EvaluatedServiceInstance |-> Null,
     SelectedProvider |-> ""]

ErrorResponse(err) == [NoResponse EXCEPT !.err = err]

EvaluationResponse(status, spec, provider) ==
    [err |-> NoError, Status |-> status, EvaluatedServiceInstance |-> Map(spec),
     SelectedProvider |-> provider]

\* The locals of EvaluateRequest and the context, as one value.
Snapshot ==
    [currentSpec |-> currentSpec, selectedProvider |-> selectedProvider,
     fc |-> fieldConstraints, sb |-> setBy, spc |-> spConstraints]

NoStep == [kind |-> "none", policy |-> "", before |-> <<>>, err |-> NoError, input |-> <<>>]

\* The orders MergeConstraints may visit the constraints of a result in.
VisitOrders(evalResult) ==
    LET c == IF evalResult.Defined
             THEN ParsePolicyDecision(evalResult.Result).Constraints ELSE Null
        patch == IF evalResult.Defined
                 THEN ParsePolicyDecision(evalResult.Result).Patch ELSE Null
        walks == IF patch = Null THEN {<<>>} ELSE PatchWalks("", patch.m)
    IN  IF c = Null THEN {<<<<>>, <<>>, walk>> : walk \in walks}
        ELSE {<<po, ko, walk>> :
                 po \in PathOrders(c.m), ko \in KeywordOrders(c.m), walk \in walks}

\* The state at the entry of EvaluateRequest.
InitRequest(cat, rt, request) ==
    /\ catalog = cat
    /\ runtime = rt
    /\ req = request
    /\ ePc = "list"
    /\ pageToken = NoPageToken
    /\ page = <<>>
    /\ nextPageToken = NoPageToken
    /\ idx = 1
    /\ currentSpec = deepCopyMap(request.ServiceInstance)
    /\ selectedProvider = ""
    /\ fieldConstraints = EmptyMap
    /\ setBy = EmptyMap
    /\ spConstraints = NoSPConstraints
    /\ response = NoResponse
    /\ invoked = <<>>
    /\ visited = <<>>
    /\ lastStep = NoStep
    /\ writes = 0
    /\ steady = {id \in DOMAIN cat : cat[id].Enabled}

\* s.policyStore.List(ctx, {Filter: {Enabled: true}, PageSize, PageToken}).
ListPage ==
    /\ ePc = "list"
    /\ LET result == List(catalog, TRUE, EvalPageSize, pageToken)
       IN  /\ page' = result.Policies
           /\ nextPageToken' = result.NextPageToken
    /\ idx' = 1
    /\ ePc' = "page"
    /\ UNCHANGED <<req, pageToken, currentSpec, selectedProvider, response, invoked,
                   visited, lastStep, writes, steady>>
    /\ UNCHANGED <<ctxVars, storeVars, svcVars, patchVars, callVars, mergeVars>>

\* The loop body for a policy the label gate filters out.
SkipPolicy ==
    /\ ePc = "page"
    /\ idx <= Len(page)
    /\ ~LabelGate(page[idx], req)
    /\ idx' = idx + 1
    /\ visited' = Append(visited, page[idx].ID)
    /\ lastStep' = [kind |-> "skip", policy |-> page[idx].ID, before |-> Snapshot,
                     err |-> NoError, input |-> <<>>]
    /\ UNCHANGED <<req, ePc, pageToken, page, nextPageToken, currentSpec,
                   selectedProvider, response, invoked, writes, steady>>
    /\ UNCHANGED <<ctxVars, storeVars, svcVars, patchVars, callVars, mergeVars>>

\* A loop that goes on after a conflict or an internal fault.
AbortsOnRejectionOnly(err) == err.Type = "REJECTED"

\* if err != nil { return nil, err }
Aborts(err) == err.Type # "OK"

\* s.policyStore.List returns an error (a storage fault, or the request
\* context was cancelled): EvaluateRequest returns an Internal error.
ListFails ==
    /\ ePc = "list"
    /\ response' = ErrorResponse(NewInternalError("Failed to retrieve policies"))
    /\ ePc' = "done"
    /\ lastStep' = [kind |-> "listfail", policy |-> "", before |-> Snapshot,
                     err |-> NewInternalError("Failed to retrieve policies"),
                     input |-> <<>>]
    /\ UNCHANGED <<req, pageToken, page, nextPageToken, idx, currentSpec,
                   selectedProvider, invoked, visited, writes, steady>>
    /\ UNCHANGED <<ctxVars, storeVars, svcVars, patchVars, callVars, mergeVars>>

\* The loop body for a policy that passes the label gate: evaluatePolicy,
\* and the return of EvaluateRequest when it fails.
EvaluatePolicyStep ==
    /\ ePc = "page"
    /\ idx <= Len(page)
    /\ LabelGate(page[idx], req)
    /\ LET policy == page[idx]
           evalResult == runtime[policy.PackageName]
       IN  \E o \in VisitOrders(evalResult) :
             \E r \in {evaluatePolicy(policy, evalResult, currentSpec, selectedProvider,
                                     fieldConstraints, setBy, spConstraints, o[1], o[2], o[3])} :
                 /\ invoked' = Append(invoked, policy.ID)
                 /\ visited' = Append(visited, policy.ID)
                 /\ lastStep' = [kind |-> "eval", policy |-> policy.ID,
                                  before |-> Snapshot, err |-> r.err,
                                  input |-> OpaInput(currentSpec, selectedProvider,
                                                     fieldConstraints, spConstraints)]
                 /\ currentSpec' = r.currentSpec
                 /\ selectedProvider' = r.selectedProvider
                 /\ fieldConstraints' = r.fc
                 /\ setBy' = r.sb
                 /\ spConstraints' = r.spc
                 /\ IF Aborts(r.err)
                    THEN /\ response' = ErrorResponse(r.err)
                         /\ ePc' = "done"
                         /\ idx' = idx
                    ELSE /\ response' = response
                         /\ ePc' = ePc
                         /\ idx' = idx + 1
    /\ UNCHANGED <<req, pageToken, page, nextPageToken, writes, steady>>
    /\ UNCHANGED <<storeVars, svcVars, patchVars, callVars, mergeVars>>

\* result.NextPageToken != "": the next page is fetched.
NextPage ==
    /\ ePc = "page"
    /\ idx > Len(page)
    /\ nextPageToken # NoPageToken
    /\ pageToken' = nextPageToken
    /\ ePc' = "list"
    /\ UNCHANGED <<req, page, nextPageToken, idx, currentSpec, selectedProvider,
                   response, invoked, visited, lastStep, writes, steady>>
    /\ UNCHANGED <<ctxVars, storeVars, svcVars, patchVars, callVars, mergeVars>>

\* The loop ends: the status is determined and the response returned.
Finish ==
    /\ ePc = "page"
    /\ idx > Len(page)
    /\ nextPageToken = NoPageToken
    /\ response' = EvaluationResponse(StatusOf(req.ServiceInstance, currentSpec),
                                      currentSpec, selectedProvider)
    /\ ePc' = "done"
    /\ UNCHANGED <<req, pageToken, page, nextPageToken, idx, currentSpec,
                   selectedProvider, invoked, visited, lastStep, writes, steady>>
    /\ UNCHANGED <<ctxVars, storeVars, svcVars, patchVars, callVars, mergeVars>>

-----------------------------------------------------------------------------
(* Inputs of EvaluateRequest                                               *)

\* A map with one or two members.
M1(k, v) == [x \in {k} |-> v]

M2(k1, v1, k2, v2) == [x \in {k1, k2} |-> IF x = k1 THEN v1 ELSE v2]

PolicyRow(id, policyType, priority, enabled, selector) ==
    [ID |-> id, PolicyType |-> policyType, Priority |-> priority, Enabled |-> enabled,
     LabelSelector |-> selector, PackageName |-> id]

ProdSelector == M1("env", "prod")

BackendSelector == M2("env", "prod", "team", "backend")

\* Evaluation order p3, p1, p2: two GLOBAL policies, then a USER policy whose
\* priority number is the lowest.
CatalogOf(disabled, selector) ==
    [id \in Ids |->
        CASE id = "p1" -> PolicyRow("p1", "GLOBAL", 2, id \notin disabled, EmptyMap)
          [] id = "p2" -> PolicyRow("p2", "USER", 1, id \notin disabled, selector)
          [] id = "p3" -> PolicyRow("p3", "GLOBAL", 1, id \notin disabled, EmptyMap)]

EvaluationRequest(spec, labels) == [ServiceInstance |-> spec, RequestLabels |-> labels]

PlainRequest == EvaluationRequest(EmptyMap, EmptyMap)

ProdRequest ==
    EvaluationRequest(M1("region", Str("east")), M2("env", "prod", "app", "web"))

BackendRequest ==
    EvaluationRequest(M2("region", Str("west"), "net", Map(M1("zone", Str("a")))),
                      M2("env", "prod", "team", "backend"))

\* The catalogs and requests EvaluateRequest is run on.
Scenarios ==
    {<<CatalogOf({}, EmptyMap), PlainRequest>>,
     <<CatalogOf({}, EmptyMap), BackendRequest>>,
     <<CatalogOf({"p1"}, EmptyMap), ProdRequest>>,
     <<CatalogOf({}, ProdSelector), PlainRequest>>,
     <<CatalogOf({}, ProdSelector), ProdRequest>>,
     <<CatalogOf({"p3"}, BackendSelector), BackendRequest>>,
     <<CatalogOf({}, BackendSelector), ProdRequest>>}

Constraint(path, keyword, value) == M1(path, Map(M1(keyword, value)))

\* The results the rule runtime returns for a package.
Results ==
    {Undefined,
     Defined([x \in {"rejected", "rejection_reason", "patch", "selected_provider",
                      "constraints", "service_provider_constraints"} |->
                CASE x = "rejected" -> Bool(TRUE)
                  [] x = "rejection_reason" -> Str("denied")
                  [] x = "patch" -> Map(M1("region", Str("west")))
                  [] x = "selected_provider" -> Str("aws")
                  [] x = "constraints" -> Map(Constraint("cpu", "maximum", Num(1)))
                  [] x = "service_provider_constraints" ->
                        Map(M1("allow_list", Arr(<<Str("aws")>>)))]),
     Defined(M2("patch", Map(M1("region", Str("east"))), "selected_provider", Str("aws"))),
     Defined(M2("patch", Map(M1("region", Str("west"))), "selected_provider", Str("gcp"))),
     Defined(M2("constraints", Map(Constraint("region", "const", Str("east"))),
                "patch", Map(M1("region", Str("east"))))),
     Defined(M1("constraints", Map(Constraint("region", "const", Str("west"))))),
     Defined(M1("constraints", Map(Constraint("cpu", "minimum", Num(2))))),
     Defined(M1("constraints",
                Map(M2("region", Map(M1("const", Str("west"))),
                       "cpu", Map(M1("minimum", Num(1))))))),
     EvaluationFailure,
     Defined(M2("constraints", Map(Constraint("region", "const", Str("east"))),
                "patch", Map(M1("region", Str("west"))))),
     Defined(M2("service_provider_constraints",
                Map(M1("allow_list", Arr(<<Str("aws")>>))),
                "selected_provider", Str("gcp"))),
     Defined(M1("patch", Map(M1("region", Null)))),
     Defined(M1("patch", Map(M1("cpu", Num(1))))),
     Defined(M2("constraints", Map(Constraint("net.zone", "const", Str("a"))),
                "patch", Map(M1("net", Map(M1("zone", Str("a"))))))),
     Defined(M1("patch", Map(M1("net", Map(M1("zone", Str("b"))))))),
     Defined(M1("patch", Map(M1("net", Null)))),
     Defined(M2("service_provider_constraints",
                Map(M2("allow_list", Arr(<<Str("aws"), Str("gcp")>>),
                       "patterns", Arr(<<Str("^a")>>))),
                "patch", Map(M1("cpu", Num(2)))))}
    \cup {Defined(M1("constraints", Map(Constraint("cpu", "maximum", Num(n))))) :
            n \in 2..MaxNum}

\* The variables a specification does not use keep these values.
IdlePatch == pBase = EmptyMap /\ pPatch = EmptyMap /\ pResult = EmptyMap /\ pPc = "idle"

IdleCalls == calls = <<>> /\ contexts = <<>>

IdleService == svcOps = 0 /\ svcLast = <<>> /\ lifecycle = <<>>

IdleMerge ==
    /\ mPc = "idle" /\ mCalls = 0 /\ mLast = <<>> /\ mOther = {}
    /\ spSeen = {} /\ spLast = <<>> /\ vLast = <<>>

IdleContext == fieldConstraints = EmptyMap /\ setBy = EmptyMap /\ spConstraints = NoSPConstraints

IdleStore == catalog = EmptyMap /\ runtime = EmptyMap

IdleEvaluation ==
    /\ req = PlainRequest
    /\ ePc = "idle"
    /\ pageToken = NoPageToken
    /\ page = <<>>
    /\ nextPageToken = NoPageToken
    /\ idx = 1
    /\ currentSpec = EmptyMap
    /\ selectedProvider = ""
    /\ response = NoResponse
    /\ invoked = <<>>
    /\ visited = <<>>
    /\ lastStep = NoStep
    /\ writes = 0
    /\ steady = {}

Init ==
    /\ \E sc \in Scenarios, rt \in [Ids -> Results] : InitRequest(sc[1], rt, sc[2])
    /\ IdlePatch /\ IdleCalls /\ IdleService
    /\ IdleMerge

Next == ListPage \/ ListFails \/ SkipPolicy \/ EvaluatePolicyStep \/ NextPage \/ Finish

Spec == Init /\ [][Next]_vars

-----------------------------------------------------------------------------
(* Properties of EvaluateRequest                                           *)

Range(seq) == {seq[i] : i \in 1..Len(seq)}

Succeeded == ePc = "done" /\ response.err.Type = "OK"

Failed == ePc = "done" /\ response.err.Type # "OK"

\* The decision the runtime returns for a policy (for a defined result).
DecisionOf(id) == ParsePolicyDecision(runtime[catalog[id].PackageName].Result)

IsDefined(id) == runtime[catalog[id].PackageName].Defined

\* The keys a dotted field path addresses.
PathKeys(path) == IF path = "net.zone" THEN <<"net", "zone">> ELSE <<path>>

\* The value a document holds at a sequence of keys, if any.
RECURSIVE ValueAt(_, _)
ValueAt(doc, keys) ==
    IF Head(keys) \notin DOMAIN doc THEN [found |-> FALSE, value |-> Null]
    ELSE IF Len(keys) = 1 THEN [found |-> TRUE, value |-> doc[Head(keys)]]
    ELSE IF doc[Head(keys)].t # "map" THEN [found |-> FALSE, value |-> Null]
    ELSE ValueAt(doc[Head(keys)].m, Tail(keys))

\* The last step was a policy step that completed without error.
StepCompleted == lastStep.kind = "eval" /\ response.err.Type = "OK"

\* C1 as stated: after every policy step that completes without error, and in
\* the returned result, the value current_spec holds at a field path that has
\* a stored fragment is admitted by that fragment.
C1_SpecSatisfiesConstraints ==
    response.err.Type = "OK" =>
        \A p \in DOMAIN fieldConstraints :
            LET at == ValueAt(currentSpec, PathKeys(p))
            IN  at.found => Admits(fieldConstraints[p], at.value)

\* C1 amended: after a policy step that completes without error, every
\* non-null, non-mapping value its patch carries at a field path that has a
\* stored fragment is the value current_spec holds there, and the fragment
\* admits it.
C1_PatchedValuesSatisfyConstraints ==
    (StepCompleted /\ IsDefined(lastStep.policy)
        /\ DecisionOf(lastStep.policy).Patch # Null) =>
        \A p \in DOMAIN fieldConstraints :
            LET written == ValueAt(DecisionOf(lastStep.policy).Patch.m, PathKeys(p))
                at == ValueAt(currentSpec, PathKeys(p))
            IN  (written.found /\ written.value.t \notin {"null", "map"}) =>
                    /\ at.found
                    /\ at.value = written.value
                    /\ Admits(fieldConstraints[p], at.value)

\* C1 witness: a step completed whose patch wrote a nested value at a path
\* that an earlier policy had constrained.
C1_Witness ==
    /\ StepCompleted
    /\ IsDefined(lastStep.policy)
    /\ DecisionOf(lastStep.policy).Patch # Null
    /\ "net.zone" \in DOMAIN lastStep.before.fc
    /\ ValueAt(DecisionOf(lastStep.policy).Patch.m, <<"net", "zone">>).found

\* C3 as stated: a conflict raised by MergeConstraints for a keyword on a
\* field path names the policy being evaluated and cites as set_by an earlier
\* policy whose decision set that keyword on that path.
C3_ConflictCitesKeywordSetter ==
    (Failed /\ response.err.Type = "POLICY_CONFLICT" /\ response.err.FieldPath # "") =>
        /\ response.err.PolicyID = invoked[Len(invoked)]
        /\ \E i \in 1..(Len(invoked) - 1) :
              /\ invoked[i] = response.err.SetBy
              /\ IsDefined(invoked[i])
              /\ LET c == DecisionOf(invoked[i]).Constraints
                 IN  /\ c # Null
                     /\ response.err.FieldPath \in DOMAIN c.m
                     /\ c.m[response.err.FieldPath].t = "map"
                     /\ response.err.Detail \in DOMAIN c.m[response.err.FieldPath].m

\* What a caller sees of a policy step: the error, or the spec and provider.
StepOutcome(r) ==
    [Type |-> r.err.Type, PolicyID |-> r.err.PolicyID, FieldPath |-> r.err.FieldPath,
     SetBy |-> r.err.SetBy, currentSpec |-> r.currentSpec,
     selectedProvider |-> r.selectedProvider]

\* C4 as stated: the outcome of the policy step about to run does not depend
\* on the order in which the decision's constraints map is visited.
C4_OutcomeIndependentOfVisitOrder ==
    (ePc = "page" /\ idx <= Len(page) /\ LabelGate(page[idx], req)) =>
        LET policy == page[idx]
            evalResult == runtime[policy.PackageName]
            outcome(o) == StepOutcome(
                evaluatePolicy(policy, evalResult, currentSpec, selectedProvider,
                               fieldConstraints, setBy, spConstraints, o[1], o[2], o[3]))
        IN  \A o1, o2 \in VisitOrders(evalResult) : outcome(o1) = outcome(o2)

\* C5: a successful response is APPROVED if the evaluated service instance
\* equals the input and MODIFIED otherwise.
C5_ApprovedIffUnchanged ==
    Succeeded =>
        /\ response.Status \in {"APPROVED", "MODIFIED"}
        /\ response.Status = "APPROVED" <=>
              response.EvaluatedServiceInstance.m = req.ServiceInstance

\* C5 witness: an APPROVED response although a policy's patch was applied.
C5_Witness ==
    /\ Succeeded
    /\ response.Status = "APPROVED"
    /\ \E i \in 1..Len(invoked) :
          IsDefined(invoked[i]) /\ DecisionOf(invoked[i]).Patch \notin {Null, Map(EmptyMap)}

\* The provider of the last policy of ids that returned a non-empty one.
RECURSIVE LastProvider(_)
LastProvider(ids) ==
    IF ids = <<>> THEN ""
    ELSE LET id == ids[Len(ids)]
         IN  IF IsDefined(id) /\ DecisionOf(id).SelectedProvider # ""
             THEN DecisionOf(id).SelectedProvider
             ELSE LastProvider(SubSeq(ids, 1, Len(ids) - 1))

\* C7: the selected_provider of a successful response is the provider returned
\* by the last evaluated policy that returned a non-empty one, or "" if none.
C7_ProviderBinding == Succeeded => response.SelectedProvider = LastProvider(invoked)

\* C7 witness: a success whose provider was set by a policy that was followed
\* by a policy that returned a decision without a provider.
C7_Witness ==
    /\ Succeeded
    /\ response.SelectedProvider # ""
    /\ Len(invoked) >= 2
    /\ IsDefined(invoked[Len(invoked)])
    /\ DecisionOf(invoked[Len(invoked)]).SelectedProvider = ""

\* Every entry of the policy's label_selector is a request label.
SelectorHolds(id) ==
    \A k \in DOMAIN catalog[id].LabelSelector :
        k \in DOMAIN req.RequestLabels
            /\ req.RequestLabels[k] = catalog[id].LabelSelector[k]

\* C8: a policy the loop reached had its rule program invoked iff every entry
\* of its label_selector is among the request labels, and a policy that was
\* gated out changed neither the spec, the provider nor the context.
C8_LabelGating ==
    /\ \A id \in Range(visited) : id \in Range(invoked) <=> SelectorHolds(id)
    /\ lastStep.kind = "skip" => lastStep.before = Snapshot

\* C8 witness: one policy was gated out and another, whose selector is a
\* proper subset of the request labels, was invoked.
C8_Witness ==
    /\ lastStep.kind = "skip"
    /\ \E id \in Range(invoked) :
          /\ catalog[id].LabelSelector = EmptyMap
          /\ DOMAIN req.RequestLabels # {}

\* a is before b in (policy_type with GLOBAL before USER, priority, id) order.
Precedes(a, b) ==
    \/ a.PolicyType = "GLOBAL" /\ b.PolicyType = "USER"
    \/ a.PolicyType = b.PolicyType /\ a.Priority < b.Priority
    \/ a.PolicyType = b.PolicyType /\ a.Priority = b.Priority /\ IdRank(a.ID) < IdRank(b.ID)

\* C10: the rule runtime is invoked for enabled, label-matching policies only,
\* in ascending (policy_type, priority, id) order without repetition, and a
\* request that succeeds has invoked every one of them.
C10_EvaluationOrder ==
    /\ \A i, j \in 1..Len(invoked) :
          i < j => Precedes(catalog[invoked[i]], catalog[invoked[j]])
    /\ \A id \in Range(invoked) : catalog[id].Enabled /\ SelectorHolds(id)
    /\ Succeeded =>
          Range(invoked) = {id \in DOMAIN catalog : catalog[id].Enabled /\ SelectorHolds(id)}

\* C10 witness: a success over two pages that invoked three policies.
C10_Witness == Succeeded /\ pageToken # NoPageToken /\ Len(invoked) = Len(IdSeq)

-----------------------------------------------------------------------------
(* mergePatch on its own                                                   *)

InitPatchOnly == InitPatch /\ IdleCalls /\ IdleService /\ IdleContext /\ IdleMerge /\ IdleStore /\ IdleEvaluation

NextPatch == ApplyPatch

SpecPatch == InitPatchOnly /\ [][NextPatch]_vars

\* C6 as stated: mergePatch(base, patch) is the RFC 7396 merge patch of base
\* with patch, also for a mapping member whose key is absent from base or
\* holds a non-mapping value there.
C6_MergePatchIsRFC7396 ==
    pPc = "applied" => Map(pResult) = MergePatch7396(Map(pBase), Map(pPatch))

-----------------------------------------------------------------------------
(* MergeConstraints on its own: a sequence of calls on one context         *)

\* The number of MergeConstraints calls made on the context.
MaxMerges == 3

Fragment(keyword, value) == Map(M1(keyword, value))

\* The fragments the calls carry for the path cpu ...
CpuFragments ==
    {Fragment("minimum", Num(n)) : n \in 1..MaxNum}
        \cup {Fragment("maximum", Num(n)) : n \in 1..MaxNum}
        \cup {Fragment("multipleOf", Num(n)) : n \in 2..MaxNum}
        \cup {Fragment("exclusiveMinimum", Num(n)) : n \in 1..2}
        \cup {Fragment("type", Str("number")), Fragment("type", Str("string")),
              Map(M2("minimum", Num(1), "maximum", Num(MaxNum))),
              Str("not a fragment")}

\* ... and for the path region.
RegionFragments ==
    {Fragment("const", Str("aws")),
     Fragment("enum", Arr(<<Str("aws"), Str("gcp")>>)),
     Fragment("enum", Arr(<<Str("gcp"), Str("azure")>>)),
     Fragment("enum", Arr(<<Str("azure")>>)),
     Fragment("maxLength", Num(2)), Fragment("maxLength", Num(3)),
     Fragment("pattern", Str("^a")),
     Fragment("pattern", Str("s$"))}

\* The newConstraints arguments of the calls.
MergeInputs ==
    {M1("cpu", f) : f \in CpuFragments}
        \cup {M1("region", f) : f \in RegionFragments}
        \cup {M2("cpu", Fragment("maximum", Num(2)), "region", Fragment("const", Str("gcp")))}
        \cup {M1("net.zone", Fragment("const", Str("aws"))),
              M1("net_zone", Fragment("enum", Arr(<<Str("aws"), Str("gcp")>>)))}

\* The values a fragment is asked about.
ValuePool ==
    {Num(n) : n \in 0..(MaxNum + 1)} \cup {Str("aws"), Str("azure"), Str("gcp"), Null}

\* The paths of newConstraints whose fragment has a keyword outside the merge
\* table or is not a valid schema.
OtherPaths(newConstraints) ==
    {p \in DOMAIN newConstraints :
        /\ newConstraints[p].t = "map"
        /\ \/ ~(DOMAIN newConstraints[p].m \subseteq TableKeywords)
           \/ ~SchemaCompiles(newConstraints[p].m)}

NoMerge == [ok |-> FALSE, before |-> EmptyMap, new |-> EmptyMap, policy |-> NoPolicy]

InitMerge ==
    /\ IdleContext
    /\ mPc = "ready"
    /\ mCalls = 0
    /\ mLast = NoMerge
    /\ mOther = {}
    /\ spSeen = {} /\ spLast = <<>> /\ vLast = <<>>
    /\ IdlePatch /\ IdleCalls /\ IdleService /\ IdleStore /\ IdleEvaluation

\* ctx.MergeConstraints(newConstraints, policyID) by the next policy.
MergeCall ==
    /\ mPc = "ready"
    /\ mCalls < MaxMerges
    /\ \E newConstraints \in MergeInputs :
         \E pathOrder \in PathOrders(newConstraints),
            kwOrder \in KeywordOrders(newConstraints) :
           LET policyID == IdSeq[(mCalls % Len(IdSeq)) + 1]
               r == MergeConstraintsFrom(fieldConstraints, setBy, newConstraints,
                                         policyID, pathOrder, kwOrder)
           IN  /\ fieldConstraints' = r.fc
               /\ setBy' = r.sb
               /\ mLast' = [ok |-> r.err.ok, before |-> fieldConstraints,
                            new |-> newConstraints, policy |-> policyID]
               /\ mOther' = mOther \cup OtherPaths(newConstraints)
    /\ mCalls' = mCalls + 1
    /\ UNCHANGED <<mPc, spConstraints, spSeen, spLast, vLast>>
    /\ UNCHANGED <<patchVars, callVars, storeVars, svcVars, evalVars>>

NextMerge == MergeCall

SpecMerge == InitMerge /\ [][NextMerge]_vars

MergeTableKeywords ==
    MinKeywords \cup MaxKeywords
        \cup {"exclusiveMinimum", "exclusiveMaximum", "enum", "const", "multipleOf"}

\* The (path, keyword) pairs the last call carried for which a value was
\* already stored before the call.
StoredKeywords ==
    {pk \in (DOMAIN mLast.new \cap DOMAIN mLast.before) \X MergeTableKeywords :
        /\ mLast.new[pk[1]].t = "map"
        /\ pk[2] \in DOMAIN mLast.new[pk[1]].m \cap DOMAIN mLast.before[pk[1]]}

ElementsOf(arr) == {arr.a[i] : i \in 1..Len(arr.a)}

\* The "fails when" column of the merge table.
TableFails(keyword, existingVal, newVal) ==
    CASE keyword \in MinKeywords \cup {"exclusiveMinimum"} -> newVal.n < existingVal.n
      [] keyword \in MaxKeywords \cup {"exclusiveMaximum"} -> newVal.n > existingVal.n
      [] keyword = "enum" -> ElementsOf(existingVal) \cap ElementsOf(newVal) = {}
      [] keyword = "const" -> existingVal # newVal
      [] keyword = "multipleOf" -> newVal.n % existingVal.n # 0

\* The "stored value" column of the merge table.
TableStores(keyword, existingVal, newVal, stored) ==
    CASE keyword \in MinKeywords \cup {"exclusiveMinimum"} ->
            stored = (IF existingVal.n >= newVal.n THEN existingVal ELSE newVal)
      [] keyword \in MaxKeywords \cup {"exclusiveMaximum"} ->
            stored = (IF existingVal.n <= newVal.n THEN existingVal ELSE newVal)
      [] keyword = "enum" ->
            ElementsOf(stored) = ElementsOf(existingVal) \cap ElementsOf(newVal)
      [] keyword = "const" -> stored = existingVal
      [] keyword = "multipleOf" -> stored = newVal

\* C22: a MergeConstraints call that carries keywords of the merge table for
\* which a value is already stored fails iff one of them meets the "fails
\* when" column of the table, and otherwise stores for each of them the
\* value the table gives. (The calls of SpecMerge carry numbers for the
\* numeric keywords, a non-zero multipleOf and arrays for enum.)
C22_MergeTable ==
    (mCalls > 0 /\ StoredKeywords # {}) =>
        /\ mLast.ok <=>
              \A pk \in StoredKeywords :
                 ~TableFails(pk[2], mLast.before[pk[1]][pk[2]], mLast.new[pk[1]].m[pk[2]])
        /\ mLast.ok =>
              \A pk \in StoredKeywords :
                 TableStores(pk[2], mLast.before[pk[1]][pk[2]], mLast.new[pk[1]].m[pk[2]],
                             fieldConstraints[pk[1]][pk[2]])

\* A call failed on a maximum above the stored one.
C22_Witness ==
    /\ mCalls > 0 /\ ~mLast.ok
    /\ \E pk \in StoredKeywords :
          /\ pk[2] = "maximum"
          /\ mLast.new[pk[1]].m[pk[2]].n > mLast.before[pk[1]][pk[2]].n

\* A call stored the intersection of two enums that differ.
C22_WitnessEnum ==
    /\ mCalls > 0 /\ mLast.ok
    /\ \E pk \in StoredKeywords :
          /\ pk[2] = "enum"
          /\ fieldConstraints[pk[1]][pk[2]] # mLast.before[pk[1]][pk[2]]

-----------------------------------------------------------------------------
(* EvaluateRequest while the CRUD surface writes to the catalog            *)

\* The number of writes made during one EvaluateRequest call.
MaxWrites == 2

\* The largest priority a written policy is given.
MaxPriority == 4

\* A catalog of GLOBAL policies only, in the order p1, p2, p3.
GlobalCatalog ==
    [id \in Ids |-> PolicyRow(id, "GLOBAL", IdRank(id) + 1, TRUE, EmptyMap)]

\* idx_priority_policy_type: no other row has the row's (priority, policy_type).
PriorityFree(table, row) ==
    \A id \in DOMAIN table \ {row.ID} :
        ~(table[id].PolicyType = row.PolicyType /\ table[id].Priority = row.Priority)

CanWrite == ePc \in {"list", "page"} /\ writes < MaxWrites

\* PolicyStore.Create, for a create that succeeds.
Create ==
    /\ CanWrite
    /\ \E id \in Ids \ DOMAIN catalog, policyType \in {"GLOBAL", "USER"},
          priority \in 1..MaxPriority, enabled \in BOOLEAN :
         LET row == PolicyRow(id, policyType, priority, enabled, EmptyMap)
         IN  /\ PriorityFree(catalog, row)
             /\ catalog' = MapSet(catalog, id, row)
    /\ writes' = writes + 1
    /\ UNCHANGED <<runtime, steady, req, ePc, pageToken, page, nextPageToken, idx,
                   currentSpec, selectedProvider, response, invoked, visited, lastStep>>
    /\ UNCHANGED <<ctxVars, patchVars, callVars, mergeVars, svcVars>>

\* PolicyStore.Delete, for a delete that affects a row.
Delete ==
    /\ CanWrite
    /\ \E id \in DOMAIN catalog :
         /\ catalog' = [x \in DOMAIN catalog \ {id} |-> catalog[x]]
         /\ steady' = steady \ {id}
    /\ writes' = writes + 1
    /\ UNCHANGED <<runtime, req, ePc, pageToken, page, nextPageToken, idx,
                   currentSpec, selectedProvider, response, invoked, visited, lastStep>>
    /\ UNCHANGED <<ctxVars, patchVars, callVars, mergeVars, svcVars>>

\* PolicyStore.Update of priority and enabled; id and policy_type stay.
Update ==
    /\ CanWrite
    /\ \E id \in DOMAIN catalog, priority \in 1..MaxPriority, enabled \in BOOLEAN :
         LET row == [catalog[id] EXCEPT !.Priority = priority, !.Enabled = enabled]
         IN  /\ row # catalog[id]
             /\ PriorityFree(catalog, row)
             /\ catalog' = MapSet(catalog, id, row)
             /\ steady' = IF enabled THEN steady ELSE steady \ {id}
    /\ writes' = writes + 1
    /\ UNCHANGED <<runtime, req, ePc, pageToken, page, nextPageToken, idx,
                   currentSpec, selectedProvider, response, invoked, visited, lastStep>>
    /\ UNCHANGED <<ctxVars, patchVars, callVars, mergeVars, svcVars>>

InitCatalog ==
    /\ \E cat \in {CatalogOf({}, EmptyMap), CatalogOf({}, ProdSelector), GlobalCatalog} :
         InitRequest(cat, [id \in Ids |-> Undefined], PlainRequest)
    /\ IdlePatch /\ IdleCalls /\ IdleService
    /\ IdleMerge

NextCatalog ==
    \/ ListPage \/ ListFails \/ SkipPolicy \/ EvaluatePolicyStep \/ NextPage \/ Finish
    \/ Create \/ Delete \/ Update

SpecCatalog == InitCatalog /\ [][NextCatalog]_vars

\* C9 as stated: with writes to the catalog between the page fetches of one
\* EvaluateRequest, no policy id is evaluated twice, and a request that
\* succeeds has reached every policy that was present and enabled
\* throughout.
C9_NoDuplicateNoSkip ==
    /\ \A i, j \in 1..Len(invoked) : invoked[i] = invoked[j] => i = j
    /\ Succeeded => steady \subseteq Range(visited)

-----------------------------------------------------------------------------
(* Errors of EvaluateRequest                                               *)

\* The result the rule runtime returns for a policy.
ResultOf(id) == runtime[catalog[id].PackageName].Result

\* The last step evaluated a policy whose decision has rejected = true.
LastStepRejected ==
    /\ lastStep.kind = "eval"
    /\ IsDefined(lastStep.policy)
    /\ "rejected" \in DOMAIN ResultOf(lastStep.policy)
    /\ ResultOf(lastStep.policy)["rejected"] = Bool(TRUE)

\* C11: when the decision of an evaluated policy has rejected = true, the
\* request fails with a Rejected error carrying that policy's id and its
\* rejection_reason, and nothing else of the decision is applied: the context
\* is as before the step and no spec or provider is returned.
C11_Rejection ==
    LastStepRejected =>
        /\ Failed
        /\ response.err.Type = "REJECTED"
        /\ response.err.PolicyID = lastStep.policy
        /\ Str(response.err.Detail) = ResultOf(lastStep.policy)["rejection_reason"]
        /\ fieldConstraints = lastStep.before.fc
        /\ setBy = lastStep.before.sb
        /\ spConstraints = lastStep.before.spc
        /\ response.EvaluatedServiceInstance = Null
        /\ response.SelectedProvider = ""

\* C11 witness: a rejection by a policy evaluated after another one, whose
\* decision also carried constraints, a patch and a provider.
C11_Witness ==
    /\ LastStepRejected
    /\ Len(invoked) >= 2
    /\ DecisionOf(lastStep.policy).Constraints # Null
    /\ DecisionOf(lastStep.policy).Patch # Null
    /\ DecisionOf(lastStep.policy).ServiceProviderConstraints.set
    /\ DecisionOf(lastStep.policy).SelectedProvider # ""

\* The last step was a policy step that failed.
StepFailed == lastStep.kind = "eval" /\ lastStep.err.Type # "OK"

\* C12: a policy step that fails with Rejected, PolicyConflict or Internal
\* ends the request at once: the failing policy is the last one reached and
\* invoked, the page held is still the one it is on (no further page was
\* fetched), and the error is returned without a service instance or a
\* provider.
C12_ErrorsAreTerminal ==
    StepFailed =>
        /\ lastStep.err.Type \in {"REJECTED", "POLICY_CONFLICT", "INTERNAL"}
        /\ ePc = "done"
        /\ response.err = lastStep.err
        /\ response.EvaluatedServiceInstance = Null
        /\ response.SelectedProvider = ""
        /\ response.Status = ""
        /\ invoked[Len(invoked)] = lastStep.policy
        /\ visited[Len(visited)] = lastStep.policy
        /\ idx <= Len(page) /\ page[idx].ID = lastStep.policy

\* C12 witness: a failure on the first page with another policy left on the
\* page and a further page left in the store.
C12_Witness ==
    /\ StepFailed
    /\ idx < Len(page)
    /\ nextPageToken # NoPageToken

\* The last step was a store List call or a rule-runtime call that returned
\* an error.
FaultSeen ==
    \/ lastStep.kind = "listfail"
    \/ lastStep.kind = "eval" /\ runtime[catalog[lastStep.policy].PackageName].Err

\* C13: when a store List call (for any page) or a rule-runtime call returns
\* an error, EvaluateRequest returns an Internal error and no status.
C13_InternalFaults ==
    FaultSeen =>
        /\ ePc = "done"
        /\ response.err.Type = "INTERNAL"
        /\ response.Status = ""
        /\ response.EvaluatedServiceInstance = Null
        /\ response.SelectedProvider = ""

\* C13 witness: the List call for the second page failed after policies of
\* the first page had changed the spec.
C13_Witness ==
    /\ lastStep.kind = "listfail"
    /\ pageToken # NoPageToken
    /\ Len(invoked) >= 1
    /\ currentSpec # req.ServiceInstance

\* C14 as stated: the constraints of a decision are not used to validate the
\* patch or the selected_provider of that same decision: a step that fails on
\* its patch or its provider would also have failed against the context as it
\* was before the step.
C14_ConstraintsBindOnlyLater ==
    (StepFailed /\ IsDefined(lastStep.policy)) =>
        LET decision == DecisionOf(lastStep.policy)
        IN  /\ lastStep.err.Violations # {} =>
                  \E walk \in PatchWalks("", decision.Patch.m) :
                      ValidatePatch(lastStep.before.fc, lastStep.before.sb,
                                    decision.Patch.m, walk) # {}
            /\ lastStep.err.Detail = "provider" =>
                  ~ValidateServiceProvider(lastStep.before.spc, decision.SelectedProvider)

\* The last step evaluated a decision whose constraints and service-provider
\* constraints were merged without conflict.
StepMerged ==
    /\ lastStep.kind = "eval"
    /\ IsDefined(lastStep.policy)
    /\ ~DecisionOf(lastStep.policy).Rejected
    /\ lastStep.err.FieldPath = ""
    /\ lastStep.err.Detail # "allow list"

\* The fields on which the last step's decision put a const constraint for the
\* first time and which its patch writes.
ConstPatchedFields ==
    LET decision == DecisionOf(lastStep.policy)
    IN  IF decision.Constraints = Null \/ decision.Patch = Null THEN {}
        ELSE {f \in DOMAIN decision.Constraints.m \ DOMAIN lastStep.before.fc :
                /\ decision.Constraints.m[f].t = "map"
                /\ "const" \in DOMAIN decision.Constraints.m[f].m
                /\ ValueAt(decision.Patch.m, PathKeys(f)).found}

\* C15: within one step the constraints are merged before the patch is
\* validated: a const constraint on a so far unconstrained field with a
\* matching patch value raises no violation on that field, and with a
\* non-matching one the step fails with PolicyConflict naming the policy as
\* the offender and as set_by of the field.
C15_SameDecisionOrdering ==
    StepMerged =>
        \A f \in ConstPatchedFields :
            LET decision == DecisionOf(lastStep.policy)
                written == ValueAt(decision.Patch.m, PathKeys(f)).value
            IN  IF written = decision.Constraints.m[f].m["const"]
                THEN \A v \in lastStep.err.Violations : v.FieldPath # f
                ELSE /\ lastStep.err.Type = "POLICY_CONFLICT"
                     /\ lastStep.err.PolicyID = lastStep.policy
                     /\ ConstraintViolation(f, lastStep.policy) \in lastStep.err.Violations

\* C15 witness: a step failed on its own const constraint after an earlier
\* step had set a const constraint with a matching patch and succeeded.
C15_Witness ==
    /\ StepMerged
    /\ ConstraintViolation("region", lastStep.policy) \in lastStep.err.Violations
    /\ "net.zone" \in DOMAIN lastStep.before.fc
    /\ ValueAt(lastStep.before.currentSpec, <<"net", "zone">>).found

-----------------------------------------------------------------------------
(* Properties of the ConstraintContext                                     *)

\* C16: a path has a set_by entry iff it has a stored fragment; no
\* MergeConstraints call, successful or failing, changes an entry; and a new
\* entry names the policy of the call that first carried a fragment for the
\* path.
C16_SetByStability ==
    /\ [](DOMAIN setBy = DOMAIN fieldConstraints)
    /\ [][/\ \A p \in DOMAIN setBy : p \in DOMAIN setBy' /\ setBy'[p] = setBy[p]
          /\ \A p \in DOMAIN setBy' \ DOMAIN setBy :
                /\ setBy'[p] = mLast'.policy
                /\ p \in DOMAIN mLast'.new
                /\ mLast'.new[p].t = "map"
          /\ mLast'.ok =>
                \A p \in DOMAIN mLast'.new :
                    mLast'.new[p].t = "map" => p \in DOMAIN setBy']_vars

\* C16 witness: a later policy's call changed the fragment of a path that
\* keeps the set_by of an earlier policy.
C16_Witness ==
    \E p \in DOMAIN mLast.new \cap DOMAIN mLast.before :
        /\ setBy[p] # mLast.policy
        /\ fieldConstraints[p] # mLast.before[p]

-----------------------------------------------------------------------------
(* Sequences of MergeSPConstraints and ValidateServiceProvider calls       *)

AllowLists ==
    {<<>>, <<"aws">>, <<"aws", "gcp">>, <<"gcp", "azure">>, <<"azure", "aws", "gcp">>}

PatternLists == {<<>>, <<"^a">>, <<"s$">>, <<"^g">>}

Providers == {"", "aws", "azure", "gcp"}

InitProvider ==
    /\ IdleContext
    /\ mPc = "provider"
    /\ mCalls = 0
    /\ mLast = <<>>
    /\ mOther = {}
    /\ spSeen = {}
    /\ spLast = [kind |-> "none"]
    /\ vLast = <<>>
    /\ IdlePatch /\ IdleCalls /\ IdleService /\ IdleStore /\ IdleEvaluation

\* ctx.MergeSPConstraints(sp, policyID) by the next policy.
MergeSPCall ==
    /\ mPc = "provider"
    /\ mCalls < MaxMerges
    /\ \E allowList \in AllowLists, patterns \in PatternLists :
         LET policyID == IdSeq[(mCalls % Len(IdSeq)) + 1]
             r == MergeSPConstraints(spConstraints, allowList, patterns, policyID)
         IN  /\ spConstraints' = r.spc
             /\ spLast' = [kind |-> "merge", ok |-> r.ok, before |-> spConstraints,
                           allowList |-> allowList, patterns |-> patterns,
                           policy |-> policyID]
             /\ spSeen' = IF r.ok /\ Len(allowList) > 0
                          THEN spSeen \cup {Range(allowList)} ELSE spSeen
    /\ mCalls' = mCalls + 1
    /\ UNCHANGED <<mPc, mLast, mOther, vLast, fieldConstraints, setBy>>
    /\ UNCHANGED <<patchVars, callVars, storeVars, svcVars, evalVars>>

\* ctx.ValidateServiceProvider(provider).
ValidateCall ==
    /\ mPc = "provider"
    /\ \E provider \in Providers :
         spLast' = [kind |-> "validate", ok |-> ValidateServiceProvider(spConstraints, provider),
                    provider |-> provider]
    /\ UNCHANGED <<mPc, mCalls, mLast, mOther, spSeen, vLast, ctxVars>>
    /\ UNCHANGED <<patchVars, callVars, storeVars, svcVars, evalVars>>

NextProvider == MergeSPCall \/ ValidateCall

SpecProvider == InitProvider /\ [][NextProvider]_vars

\* The members common to every set of S.
Inter(S) == {x \in UNION S : \A m \in S : x \in m}

\* C17: after any sequence of MergeSPConstraints calls the accumulated allow
\* list is the intersection of the non-empty allow lists of the successful
\* calls and is not empty (and there is none before the first of them); a
\* call fails exactly when its non-empty allow list has no member in common
\* with that intersection, and a failed call leaves the context as it was.
C17_AllowListIsIntersection ==
    /\ spConstraints.set =>
          IF spSeen = {} THEN spConstraints.AllowList = <<>>
          ELSE /\ Range(spConstraints.AllowList) = Inter(spSeen)
               /\ Len(spConstraints.AllowList) > 0
    /\ ~spConstraints.set => spSeen = {}
    /\ spLast.kind = "merge" =>
          /\ spLast.ok <=> \/ spLast.allowList = <<>>
                           \/ Inter(spSeen \cup {Range(spLast.allowList)}) # {}
          /\ ~spLast.ok => spConstraints = spLast.before

C17_Witness ==
    /\ spLast.kind = "merge" /\ spLast.ok /\ spConstraints.set
    /\ Cardinality(spSeen) >= 2
    /\ \A m \in spSeen : Range(spConstraints.AllowList) # m

-----------------------------------------------------------------------------
(* The provider check                                                      *)

\* The selected_provider of the result of a policy, "" when it has none.
RawProvider(id) ==
    IF IsDefined(id) /\ "selected_provider" \in DOMAIN ResultOf(id)
       /\ ResultOf(id)["selected_provider"].t = "str"
    THEN ResultOf(id)["selected_provider"].s ELSE ""

\* provider is in the accumulated allow list, when there is one, and matches
\* every accumulated pattern.
ProviderAdmitted(provider) ==
    /\ spConstraints.AllowList # <<>> => provider \in Range(spConstraints.AllowList)
    /\ \A pattern \in Range(spConstraints.Patterns) : RegexMatches(pattern, provider)

\* The last step evaluated a policy that selects a provider and got as far as
\* checking it: the step succeeded or failed on the provider.
StepCheckedProvider ==
    /\ lastStep.kind = "eval"
    /\ RawProvider(lastStep.policy) # ""
    /\ lastStep.err.Type = "OK" \/ lastStep.err.Detail = "provider"

\* C18: ValidateServiceProvider(provider) succeeds if and only if provider is
\* "", or no service-provider constraints are accumulated, or the provider is
\* in the accumulated allow list (when there is one) and matches every
\* accumulated pattern; and a policy step that selects a provider succeeds and
\* binds it when the check succeeds, and otherwise fails the request with a
\* PolicyConflict naming that policy and without a provider.
C18_ProviderCheck ==
    /\ \A provider \in Providers :
          ValidateServiceProvider(spConstraints, provider)
             <=> \/ provider = ""
                 \/ ~spConstraints.set
                 \/ ProviderAdmitted(provider)
    /\ StepCheckedProvider =>
          IF ~spConstraints.set \/ ProviderAdmitted(RawProvider(lastStep.policy))
          THEN /\ lastStep.err.Type = "OK"
               /\ selectedProvider = RawProvider(lastStep.policy)
          ELSE /\ Failed
               /\ response.err.Type = "POLICY_CONFLICT"
               /\ response.err.PolicyID = lastStep.policy
               /\ response.SelectedProvider = ""
               /\ response.EvaluatedServiceInstance = Null

\* C18 witness: a policy selects a provider that is in the allow list an
\* earlier policy set and does not match the pattern set with it.
C18_Witness ==
    /\ StepCheckedProvider
    /\ Failed
    /\ lastStep.before.spc.set
    /\ RawProvider(lastStep.policy) \in Range(spConstraints.AllowList)
    /\ \E pattern \in Range(spConstraints.Patterns) :
          ~RegexMatches(pattern, RawProvider(lastStep.policy))

\* C18 witness, the other way: a provider that passes an allow list and a
\* pattern is bound.
C18_WitnessAdmitted ==
    /\ StepCheckedProvider
    /\ Succeeded
    /\ spConstraints.set
    /\ spConstraints.AllowList # <<>> /\ spConstraints.Patterns # <<>>
    /\ response.SelectedProvider = RawProvider(lastStep.policy)

-----------------------------------------------------------------------------
(* Concurrent EvaluateRequest calls                                        *)

MaxCalls == 2

CallIds == 1..MaxCalls

\* One context for every call.
ContextOfShared(c) == 1

\* constraintCtx := NewConstraintContext(): the context a call works on is
\* the one it made.
ContextOf(c) == c

NewConstraintContext == [fc |-> EmptyMap, sb |-> EmptyMap, spc |-> NoSPConstraints]

\* A call that has not begun: its request, and locals not yet assigned.
NewCall(request) ==
    [req |-> request, ePc |-> "new", pageToken |-> NoPageToken, page |-> <<>>,
     nextPageToken |-> NoPageToken, idx |-> 1, currentSpec |-> EmptyMap,
     selectedProvider |-> "", response |-> NoResponse, overlapped |-> FALSE]

\* Another call is between its entry and its return.
OtherRunning(c) == \E d \in CallIds \ {c} : calls[d].ePc \notin {"new", "done"}

Stepped(c, me) == [me EXCEPT !.overlapped = @ \/ OtherRunning(c)]

ConcurrentCatalogs == {CatalogOf({}, ProdSelector)}

ConcurrentRequests == {PlainRequest, ProdRequest}

ConcurrentResults ==
    {Undefined,
     Defined(M2("constraints", Map(Constraint("region", "const", Str("east"))),
                "patch", Map(M1("region", Str("east"))))),
     Defined(M2("patch", Map(M1("region", Str("west"))), "selected_provider", Str("gcp"))),
     Defined(M2("service_provider_constraints",
                Map(M2("allow_list", Arr(<<Str("aws"), Str("gcp")>>),
                       "patterns", Arr(<<Str("^a")>>))),
                "patch", Map(M1("cpu", Num(2))))),
     Defined(M1("constraints", Map(Constraint("cpu", "maximum", Num(1)))))}

InitConcurrent ==
    /\ \E cat \in ConcurrentCatalogs, rt \in [Ids -> ConcurrentResults],
          rq \in [CallIds -> ConcurrentRequests] :
          /\ catalog = cat
          /\ runtime = rt
          /\ calls = [c \in CallIds |-> NewCall(rq[c])]
    /\ contexts = <<>>
    /\ IdleContext /\ IdlePatch /\ IdleMerge /\ IdleEvaluation /\ IdleService

\* The entry of EvaluateRequest: the copy of the service instance and the
\* new context.
Begin(c) ==
    /\ calls[c].ePc = "new"
    /\ calls' = [calls EXCEPT ![c] =
                    Stepped(c, [@ EXCEPT !.currentSpec = deepCopyMap(calls[c].req.ServiceInstance),
                                         !.selectedProvider = "",
                                         !.ePc = "list"])]
    /\ contexts' = [k \in DOMAIN contexts \cup {ContextOf(c)} |->
                       IF k = ContextOf(c) THEN NewConstraintContext ELSE contexts[k]]
    /\ UNCHANGED <<ctxVars, storeVars, svcVars, patchVars, mergeVars, evalVars>>

CallListPage(c) ==
    /\ calls[c].ePc = "list"
    /\ LET result == List(catalog, TRUE, EvalPageSize, calls[c].pageToken)
       IN  calls' = [calls EXCEPT ![c] =
                        Stepped(c, [@ EXCEPT !.page = result.Policies,
                                             !.nextPageToken = result.NextPageToken,
                                             !.idx = 1,
                                             !.ePc = "page"])]
    /\ UNCHANGED <<contexts, ctxVars, storeVars, svcVars, patchVars, mergeVars, evalVars>>

CallListFails(c) ==
    /\ calls[c].ePc = "list"
    /\ calls' = [calls EXCEPT ![c] =
                    Stepped(c, [@ EXCEPT !.response = ErrorResponse(
                                            NewInternalError("Failed to retrieve policies")),
                                         !.ePc = "done"])]
    /\ UNCHANGED <<contexts, ctxVars, storeVars, svcVars, patchVars, mergeVars, evalVars>>

CallSkipPolicy(c) ==
    /\ calls[c].ePc = "page"
    /\ calls[c].idx <= Len(calls[c].page)
    /\ ~LabelGate(calls[c].page[calls[c].idx], calls[c].req)
    /\ calls' = [calls EXCEPT ![c] = Stepped(c, [@ EXCEPT !.idx = @ + 1])]
    /\ UNCHANGED <<contexts, ctxVars, storeVars, svcVars, patchVars, mergeVars, evalVars>>

CallEvaluatePolicyStep(c) ==
    /\ calls[c].ePc = "page"
    /\ calls[c].idx <= Len(calls[c].page)
    /\ LabelGate(calls[c].page[calls[c].idx], calls[c].req)
    /\ \E me \in {calls[c]}, ctx \in {contexts[ContextOf(c)]} :
         \E policy \in {me.page[me.idx]} :
           \E evalResult \in {runtime[policy.PackageName]} :
             \E o \in VisitOrders(evalResult) :
             \E r \in {evaluatePolicy(policy, evalResult, me.currentSpec,
                                     me.selectedProvider, ctx.fc, ctx.sb, ctx.spc,
                                     o[1], o[2], o[3])} :
                 /\ contexts' = [contexts EXCEPT ![ContextOf(c)] =
                                    [fc |-> r.fc, sb |-> r.sb, spc |-> r.spc]]
                 /\ calls' = [calls EXCEPT ![c] =
                        Stepped(c,
                          IF Aborts(r.err)
                          THEN [me EXCEPT !.currentSpec = r.currentSpec,
                                          !.selectedProvider = r.selectedProvider,
                                          !.response = ErrorResponse(r.err),
                                          !.ePc = "done"]
                          ELSE [me EXCEPT !.currentSpec = r.currentSpec,
                                          !.selectedProvider = r.selectedProvider,
                                          !.idx = @ + 1])]
    /\ UNCHANGED <<ctxVars, storeVars, svcVars, patchVars, mergeVars, evalVars>>

CallNextPage(c) ==
    /\ calls[c].ePc = "page"
    /\ calls[c].idx > Len(calls[c].page)
    /\ calls[c].nextPageToken # NoPageToken
    /\ calls' = [calls EXCEPT ![c] =
                    Stepped(c, [@ EXCEPT !.pageToken = calls[c].nextPageToken, !.ePc = "list"])]
    /\ UNCHANGED <<contexts, ctxVars, storeVars, svcVars, patchVars, mergeVars, evalVars>>

CallFinish(c) ==
    /\ calls[c].ePc = "page"
    /\ calls[c].idx > Len(calls[c].page)
    /\ calls[c].nextPageToken = NoPageToken
    /\ calls' = [calls EXCEPT ![c] =
                    Stepped(c, [@ EXCEPT !.response =
                                   EvaluationResponse(
                                       StatusOf(calls[c].req.ServiceInstance,
                                                calls[c].currentSpec),
                                       calls[c].currentSpec,
                                       calls[c].selectedProvider),
                                         !.ePc = "done"])]
    /\ UNCHANGED <<contexts, ctxVars, storeVars, svcVars, patchVars, mergeVars, evalVars>>

NextConcurrent ==
    \/ \E c \in CallIds : Begin(c)
    \/ \E c \in CallIds : CallListPage(c)
    \/ \E c \in CallIds : CallListFails(c)
    \/ \E c \in CallIds : CallSkipPolicy(c)
    \/ \E c \in CallIds : CallEvaluatePolicyStep(c)
    \/ \E c \in CallIds : CallNextPage(c)
    \/ \E c \in CallIds : CallFinish(c)

SpecConcurrent == InitConcurrent /\ [][NextConcurrent]_vars

\* The enabled policies of the catalog, page after page.
RECURSIVE AllPages(_)
AllPages(token) ==
    LET result == List(catalog, TRUE, EvalPageSize, token)
    IN  result.Policies \o (IF result.NextPageToken = NoPageToken THEN <<>>
                            ELSE AllPages(result.NextPageToken))

\* The responses of a call that runs alone over the given policies, from the
\* given locals and context.
RECURSIVE AloneOutcomes(_, _, _, _, _), AloneAfter(_, _, _)
AloneOutcomes(policies, request, spec, provider, ctx) ==
    IF policies = <<>>
    THEN {EvaluationResponse(StatusOf(request.ServiceInstance, spec), spec, provider)}
    ELSE IF ~LabelGate(Head(policies), request)
    THEN AloneOutcomes(Tail(policies), request, spec, provider, ctx)
    ELSE UNION {AloneAfter(Tail(policies), request,
                           evaluatePolicy(Head(policies),
                                          runtime[Head(policies).PackageName], spec,
                                          provider, ctx.fc, ctx.sb, ctx.spc, o[1], o[2], o[3]))
                : o \in VisitOrders(runtime[Head(policies).PackageName])}

\* The run goes on, or ends, after a policy step with result r.
AloneAfter(policies, request, r) ==
    IF Aborts(r.err) THEN {ErrorResponse(r.err)}
    ELSE AloneOutcomes(policies, request, r.currentSpec, r.selectedProvider,
                       [fc |-> r.fc, sb |-> r.sb, spc |-> r.spc])

AloneResponses(request) ==
    {ErrorResponse(NewInternalError("Failed to retrieve policies"))}
    \cup AloneOutcomes(AllPages(NoPageToken), request,
                       deepCopyMap(request.ServiceInstance), "", NewConstraintContext)

\* C19: with the catalog and the results of the rule runtime fixed, the
\* response of an EvaluateRequest call that runs interleaved with another
\* call is a response the call has when it runs alone; and a step of one call
\* changes neither the locals nor the context of the other call.
C19_CallsAreIndependent ==
    /\ [](\A c \in CallIds :
             calls[c].ePc = "done" => calls[c].response \in AloneResponses(calls[c].req))
    /\ [][\A c \in CallIds :
             calls'[c] # calls[c] =>
                \A d \in CallIds \ {c} :
                    /\ calls'[d] = calls[d]
                    /\ d \in DOMAIN contexts => d \in DOMAIN contexts'
                                                 /\ contexts'[d] = contexts[d]]_vars

\* C19 witness: two calls that overlapped returned different results, each
\* after its own context accumulated constraints the other does not hold.
C19_Witness ==
    /\ \A c \in CallIds : calls[c].ePc = "done" /\ calls[c].overlapped
                          /\ calls[c].response.err.Type = "OK"
    /\ calls[1].response # calls[2].response
    /\ DOMAIN contexts = CallIds
    /\ contexts[1].fc # EmptyMap
    /\ contexts[1].fc # contexts[2].fc

-----------------------------------------------------------------------------
(* ValidatePatch on the contexts MergeConstraints builds                   *)

\* The patch arguments of the calls.
ValidatePatches ==
    {EmptyMap,
     M1("cpu", Num(2)),
     M1("cpu", Str("aws")),
     M1("region", Str("aws")),
     M2("cpu", Num(MaxNum + 1), "region", Str("azure")),
     M1("net", Map(M1("zone", Str("aws")))),
     M1("net", Map(M1("zone", Str("gcp")))),
     M1("net.zone", Str("gcp")),
     M1("net_zone", Str("aws")),
     M2("net", Map(M1("zone", Str("aws"))), "net_zone", Str("aws")),
     M2("net", Map(M1("zone", Null)), "other", Num(1))}

InitValidate ==
    /\ IdleContext
    /\ mPc = "ready"
    /\ mCalls = 0
    /\ mLast = NoMerge
    /\ mOther = {}
    /\ spSeen = {} /\ spLast = <<>>
    /\ vLast = [kind |-> "none"]
    /\ IdlePatch /\ IdleCalls /\ IdleService /\ IdleStore /\ IdleEvaluation

\* ctx.ValidatePatch(patch): the violations are returned, and neither the
\* context nor the patch is written.
ValidatePatchCall ==
    /\ mPc = "ready"
    /\ \E patch \in ValidatePatches :
         \E walk \in PatchWalks("", patch) :
            vLast' = [kind |-> "validate", patch |-> patch,
                      violations |-> ValidatePatch(fieldConstraints, setBy, patch, walk),
                      fc |-> fieldConstraints, sb |-> setBy]
    /\ mPc' = "validated"
    /\ UNCHANGED <<mCalls, mLast, mOther, spSeen, spLast, ctxVars>>
    /\ UNCHANGED <<patchVars, callVars, storeVars, svcVars, evalVars>>

NextValidate == MergeCall \/ ValidatePatchCall

SpecValidate == InitValidate /\ [][NextValidate]_vars

\* The field paths the patch reaches, each with the value it has there: the
\* top-level keys and the keys of nested mappings, by their dotted path.
RECURSIVE Reached(_, _)
Reached(prefix, patch) ==
    UNION {{[FieldPath |-> JoinPath(prefix, key), Value |-> patch[key]]}
              \cup (IF patch[key].t = "map"
                    THEN Reached(JoinPath(prefix, key), patch[key].m) ELSE {})
           : key \in DOMAIN patch}

\* The entries of the last validated patch at a field path with a fragment.
ConstrainedEntries ==
    {e \in Reached("", vLast.patch) : e.FieldPath \in DOMAIN vLast.fc}

\* C20 as stated: ValidatePatch returns no violation if and only if every
\* value the patch has at a field path with a stored fragment is admitted by
\* that fragment; every violation names such a field path and the policy
\* that set it; and the context is as it was before the call.
C20_ValidatePatchComplete ==
    vLast.kind = "validate" =>
        /\ vLast.violations = {}
              <=> \A e \in ConstrainedEntries : Admits(vLast.fc[e.FieldPath], e.Value)
        /\ \A v \in vLast.violations :
              /\ \E e \in ConstrainedEntries : e.FieldPath = v.FieldPath
              /\ v.SetByPolicy = vLast.sb[v.FieldPath]
        /\ fieldConstraints = vLast.fc /\ setBy = vLast.sb

\* Two field paths of the last validated patch have fragments and the same
\* schema URI.
URICollision ==
    \E e1, e2 \in ConstrainedEntries :
        e1.FieldPath # e2.FieldPath /\ SchemaURI(e1.FieldPath) = SchemaURI(e2.FieldPath)

\* The statement of C20 for the calls without such a pair.
C20_CompleteWithoutCollision ==
    (vLast.kind = "validate" /\ ~URICollision) => C20_ValidatePatchComplete

C20_Witness ==
    /\ vLast.kind = "validate"
    /\ ~URICollision
    /\ Cardinality(vLast.violations) >= 2

(***************************************************************************)
(* The policy service: CreatePolicy, UpdatePolicy, DeletePolicy            *)
(***************************************************************************)

\* The number of service operations of one behaviour.
MaxOps == 3

\* The priority range of a policy and the default of APIToDBModel.
MinPriority == 1
MaxPolicyPriority == 1000
DefaultPriority == 500

\* An optional field of an API policy: absent, or present with a value.
Absent == [set |-> FALSE]
Present(v) == [set |-> TRUE, v |-> v]

\* The priorities a request carries: none, the two ends of the range, the
\* values next to them, and a negative one.
RequestPriorities ==
    {Absent} \cup {Present(n) : n \in {0 - 1, 0, MinPriority, MaxPolicyPriority,
                                       MaxPolicyPriority + 1}}

\* A range check that admits every priority.
PriorityInRangeAny(priority) == TRUE

\* The range check on the priority of a row that is written.
PriorityInRange(priority) == priority \in MinPriority..MaxPolicyPriority

\* validatePostInput: display_name, policy_type and rego_code are required.
validatePostInput(policy) == policy.HasDisplayName /\ policy.HasPolicyType /\ policy.HasRegoCode

\* APIToDBModel: priority defaults to 500 and enabled to true.
APIToDBModel(policy, id) ==
    PolicyRow(id, policy.PolicyType,
              IF policy.Priority.set THEN policy.Priority.v ELSE DefaultPriority,
              IF policy.Enabled.set THEN policy.Enabled.v ELSE TRUE,
              EmptyMap)

\* MergePolicyOntoPolicy: the fields the patch carries replace the existing
\* ones; policy_type is immutable.
MergePolicyOntoPolicy(patch, existing) ==
    [PolicyType |-> existing.PolicyType,
     Priority   |-> IF patch.Priority.set THEN patch.Priority ELSE Present(existing.Priority),
     Enabled    |-> IF patch.Enabled.set THEN patch.Enabled ELSE Present(existing.Enabled)]

\* The errors the store may report for the insert of a row: the database
\* reports whichever of the violated constraints it meets first.
CreateErrors(table, row) ==
    (IF row.ID \in DOMAIN table THEN {"ErrPolicyIDTaken"} ELSE {})
        \cup (IF PriorityFree(table, row) THEN {} ELSE {"ErrPriorityPolicyTypeTaken"})
        \cup (IF PriorityInRange(row.Priority) THEN {} ELSE {"ErrPriorityOutOfRange"})

\* The errors the store may report for the update of an existing row.
UpdateErrors(table, row) ==
    (IF PriorityFree(table, row) THEN {} ELSE {"ErrPriorityPolicyTypeTaken"})
        \cup (IF PriorityInRange(row.Priority) THEN {} ELSE {"ErrPriorityOutOfRange"})

\* ProcessPolicyStoreError: the service error type of a store error.
ProcessPolicyStoreError(err) ==
    CASE err = "ErrPolicyIDTaken" -> "ALREADY_EXISTS"
      [] err = "ErrPriorityPolicyTypeTaken" -> "ALREADY_EXISTS"
      [] err = "ErrPolicyNotFound" -> "NOT_FOUND"
      [] err = "ErrPriorityOutOfRange" -> "INVALID_ARGUMENT"
      [] OTHER -> "INTERNAL"

\* The record of one service operation.
ServiceResult(op, id, priority, err, before) ==
    [op |-> op, id |-> id, priority |-> priority, err |-> err, before |-> before]

\* The API policies of the create requests.
CreateRequests ==
    {[HasDisplayName |-> TRUE, HasPolicyType |-> TRUE, HasRegoCode |-> rego,
      PolicyType |-> policyType, Priority |-> priority, Enabled |-> Absent] :
        rego \in BOOLEAN, policyType \in {"GLOBAL", "USER"}, priority \in RequestPriorities}

\* The patches of the update requests.
UpdateRequests ==
    {[Priority |-> priority, Enabled |-> enabled] :
        priority \in RequestPriorities, enabled \in {Absent, Present(FALSE)}}

InitPolicy ==
    /\ catalog = EmptyMap
    /\ runtime = EmptyMap
    /\ svcOps = 0
    /\ svcLast = <<>>
    /\ lifecycle = <<>>
    /\ IdleContext /\ IdlePatch /\ IdleMerge /\ IdleEvaluation /\ IdleCalls

\* PolicyService.CreatePolicy with a client-specified id.
CreatePolicy ==
    /\ svcOps < MaxOps
    /\ svcOps' = svcOps + 1
    /\ \E policy \in CreateRequests, id \in Ids :
         IF ~validatePostInput(policy)
         THEN /\ svcLast' = ServiceResult("create", id, policy.Priority,
                                          "INVALID_ARGUMENT", catalog)
              /\ UNCHANGED catalog
         ELSE \E row \in {APIToDBModel(policy, id)} :
                IF CreateErrors(catalog, row) = {}
                THEN /\ catalog' = MapSet(catalog, id, row)
                     /\ svcLast' = ServiceResult("create", id, policy.Priority, "", catalog)
                ELSE \E err \in CreateErrors(catalog, row) :
                       /\ svcLast' = ServiceResult("create", id, policy.Priority,
                                                   ProcessPolicyStoreError(err), catalog)
                       /\ UNCHANGED catalog
    /\ UNCHANGED <<runtime, lifecycle>>
    /\ UNCHANGED <<ctxVars, patchVars, callVars, mergeVars, evalVars>>

\* PolicyService.UpdatePolicy: get, merge the patch, write.
UpdatePolicy ==
    /\ svcOps < MaxOps
    /\ svcOps' = svcOps + 1
    /\ \E patch \in UpdateRequests, id \in Ids :
         IF id \notin DOMAIN catalog
         THEN /\ svcLast' = ServiceResult("update", id, patch.Priority,
                                          ProcessPolicyStoreError("ErrPolicyNotFound"), catalog)
              /\ UNCHANGED catalog
         ELSE \E row \in {APIToDBModel(MergePolicyOntoPolicy(patch, catalog[id]), id)} :
                IF UpdateErrors(catalog, row) = {}
                THEN /\ catalog' = MapSet(catalog, id, row)
                     /\ svcLast' = ServiceResult("update", id, patch.Priority, "", catalog)
                ELSE \E err \in UpdateErrors(catalog, row) :
                       /\ svcLast' = ServiceResult("update", id, patch.Priority,
                                                   ProcessPolicyStoreError(err), catalog)
                       /\ UNCHANGED catalog
    /\ UNCHANGED <<runtime, lifecycle>>
    /\ UNCHANGED <<ctxVars, patchVars, callVars, mergeVars, evalVars>>

\* PolicyService.DeletePolicy.
DeletePolicy ==
    /\ svcOps < MaxOps
    /\ svcOps' = svcOps + 1
    /\ \E id \in Ids :
         IF id \notin DOMAIN catalog
         THEN /\ svcLast' = ServiceResult("delete", id, Absent,
                                          ProcessPolicyStoreError("ErrPolicyNotFound"), catalog)
              /\ UNCHANGED catalog
         ELSE /\ catalog' = [x \in DOMAIN catalog \ {id} |-> catalog[x]]
              /\ svcLast' = ServiceResult("delete", id, Absent, "", catalog)
    /\ UNCHANGED <<runtime, lifecycle>>
    /\ UNCHANGED <<ctxVars, patchVars, callVars, mergeVars, evalVars>>

NextPolicy == CreatePolicy \/ UpdatePolicy \/ DeletePolicy

SpecPolicy == InitPolicy /\ [][NextPolicy]_vars

\* The last operation carried a priority outside [1, 1000].
OutOfRangeRequest ==
    /\ svcLast # <<>>
    /\ svcLast.op \in {"create", "update"}
    /\ svcLast.priority.set
    /\ ~(svcLast.priority.v \in MinPriority..MaxPolicyPriority)

\* C21: every stored policy has a priority in [1, 1000]; a create or update
\* that carries a priority below 1 or above 1000 fails and leaves the catalog
\* as it was, and fails with InvalidArgument whenever the range is the only
\* thing wrong with it (the id is free for a create, the policy exists for an
\* update, the required fields are there).
C21_PriorityInRange ==
    /\ \A id \in DOMAIN catalog : catalog[id].Priority \in MinPriority..MaxPolicyPriority
    /\ OutOfRangeRequest =>
         /\ svcLast.err # ""
         /\ catalog = svcLast.before
         /\ (svcLast.op = "create" /\ svcLast.id \notin DOMAIN svcLast.before)
               => svcLast.err = "INVALID_ARGUMENT"
         /\ (svcLast.op = "update" /\ svcLast.id \in DOMAIN svcLast.before)
               => svcLast.err = "INVALID_ARGUMENT"

\* An update to priority 1001 of a stored policy was refused, after a create.
C21_Witness ==
    /\ OutOfRangeRequest
    /\ svcLast.op = "update"
    /\ svcLast.priority.v = MaxPolicyPriority + 1
    /\ svcLast.id \in DOMAIN catalog
    /\ svcLast.err = "INVALID_ARGUMENT"
    /\ catalog[svcLast.id].Priority \in {MinPriority, MaxPolicyPriority, DefaultPriority}

-----------------------------------------------------------------------------
(* Policy steps that leave the state alone                                 *)

\* The step being taken evaluates the policy at idx.
EvaluatesPolicy == ePc = "page" /\ idx <= Len(page) /\ Len(invoked') > Len(invoked)

\* C23: a policy step whose decision the runtime reports as undefined leaves
\* current_spec, selected_provider, the field constraints, set_by and the
\* service-provider constraints exactly as they were, and the evaluation
\* goes on with the next policy.
C23_UndefinedSkipped ==
    [][(EvaluatesPolicy /\ runtime[page[idx].PackageName] = Undefined) =>
          /\ currentSpec' = currentSpec
          /\ selectedProvider' = selectedProvider
          /\ fieldConstraints' = fieldConstraints
          /\ setBy' = setBy
          /\ spConstraints' = spConstraints
          /\ response' = response
          /\ ePc' = "page"
          /\ idx' = idx + 1]_vars

\* An undefined decision was skipped while the call held a patched spec and
\* constraints, and a later policy was evaluated after it.
C23_Witness ==
    /\ Len(invoked) >= 3
    /\ runtime[catalog[invoked[2]].PackageName] = Undefined
    /\ lastStep.kind = "eval" /\ lastStep.policy = invoked[3]
    /\ lastStep.before.fc # EmptyMap
    /\ lastStep.before.currentSpec # req.ServiceInstance

\* The result is defined and its decision carries constraints and nothing
\* else: no patch, no provider, no rejection, no provider constraints.
ConstraintsOnly(evalResult) ==
    /\ evalResult.Defined
    /\ DOMAIN evalResult.Result = {"constraints"}
    /\ evalResult.Result["constraints"].t = "map"

\* The fragments a constraints map carries (entries that are not mappings
\* are skipped by MergeConstraints).
FragmentPaths(constraints) == {p \in DOMAIN constraints : constraints[p].t = "map"}

\* C24: a policy step whose decision carries only constraints and which
\* completes leaves current_spec and selected_provider unchanged and has
\* every field path of its constraints in the context afterwards; and when
\* every policy evaluated by a successful request was of this kind, the
\* response is APPROVED with the input spec, whatever values the input holds
\* for the constrained fields.
C24_ConstraintsOnly ==
    /\ [][(/\ EvaluatesPolicy
           /\ ConstraintsOnly(runtime[page[idx].PackageName])
           /\ lastStep'.err.Type = "OK") =>
             /\ currentSpec' = currentSpec
             /\ selectedProvider' = selectedProvider
             /\ FragmentPaths(runtime[page[idx].PackageName].Result["constraints"].m)
                   \subseteq DOMAIN fieldConstraints'
             /\ DOMAIN fieldConstraints \subseteq DOMAIN fieldConstraints']_vars
    /\ []((/\ Succeeded
           /\ \A id \in Range(invoked) : ConstraintsOnly(runtime[catalog[id].PackageName])) =>
             /\ response.Status = "APPROVED"
             /\ response.EvaluatedServiceInstance = Map(req.ServiceInstance)
             /\ response.SelectedProvider = "")

\* A request was approved unchanged after two or more policies that carried
\* only constraints, although its input holds a value for region that the
\* accumulated fragment of region does not admit.
C24_Witness ==
    /\ Succeeded
    /\ Len(invoked) >= 2
    /\ \A id \in Range(invoked) : ConstraintsOnly(runtime[catalog[id].PackageName])
    /\ "region" \in DOMAIN fieldConstraints \cap DOMAIN req.ServiceInstance
    /\ ~Admits(fieldConstraints["region"], req.ServiceInstance["region"])
    /\ response.Status = "APPROVED"

-----------------------------------------------------------------------------
(* The input of the rule runtime                                           *)

\* The spec with the patches of the decisions of ids merged in, in order.
RECURSIVE PatchesMerged(_, _)
PatchesMerged(spec, ids) ==
    IF ids = <<>> THEN spec
    ELSE PatchesMerged(
            IF IsDefined(Head(ids)) /\ DecisionOf(Head(ids)).Patch # Null
            THEN mergePatch(spec, DecisionOf(Head(ids)).Patch.m) ELSE spec,
            Tail(ids))

\* The policies evaluated before the last one.
Earlier == SubSeq(invoked, 1, Len(invoked) - 1)

\* The field paths for which the decisions of ids carried a fragment.
ConstrainedBy(ids) ==
    UNION {FragmentPaths(DecisionOf(id).Constraints.m) :
              id \in {x \in Range(ids) : IsDefined(x) /\ DecisionOf(x).Constraints # Null}}

\* A decision of ids carried a non-empty allow list or pattern list.
ProviderConstrainedBy(ids) ==
    \E id \in Range(ids) :
        /\ IsDefined(id)
        /\ DecisionOf(id).ServiceProviderConstraints.set
        /\ Len(DecisionOf(id).ServiceProviderConstraints.AllowList)
              + Len(DecisionOf(id).ServiceProviderConstraints.Patterns) > 0

\* C25: the input passed to the rule runtime for the k-th evaluated policy
\* has the input spec with the patches of the earlier policies merged in
\* order as spec, the last non-empty provider of an earlier policy as
\* provider, and the constraints and provider constraints the context held
\* before the step, which stem from the earlier decisions alone; each of the
\* two keys is absent when the earlier policies accumulated nothing.
C25_RuleInput ==
    lastStep.kind = "eval" =>
        /\ lastStep.policy = invoked[Len(invoked)]
        /\ {"spec", "provider"} \subseteq DOMAIN lastStep.input
        /\ lastStep.input["spec"] =
              Map(PatchesMerged(deepCopyMap(req.ServiceInstance), Earlier))
        /\ lastStep.input["provider"] = Str(LastProvider(Earlier))
        /\ "constraints" \in DOMAIN lastStep.input <=> ConstrainedBy(Earlier) # {}
        /\ "constraints" \in DOMAIN lastStep.input =>
              /\ DOMAIN lastStep.input["constraints"].m = ConstrainedBy(Earlier)
              /\ \A p \in ConstrainedBy(Earlier) :
                    lastStep.input["constraints"].m[p] = Map(lastStep.before.fc[p])
        /\ "service_provider_constraints" \in DOMAIN lastStep.input
              <=> ProviderConstrainedBy(Earlier)
        /\ "service_provider_constraints" \in DOMAIN lastStep.input =>
              /\ lastStep.before.spc.set
              /\ lastStep.input["service_provider_constraints"] =
                    GetSPConstraintsMap(lastStep.before.spc)

\* The third policy was evaluated on an input that carries a patched spec, a
\* provider and constraints of the two before it, while its own decision
\* carries a patch.
C25_Witness ==
    /\ lastStep.kind = "eval"
    /\ Len(invoked) = 3
    /\ "constraints" \in DOMAIN lastStep.input
    /\ lastStep.input["provider"] # Str("")
    /\ lastStep.input["spec"] # Map(req.ServiceInstance)
    /\ IsDefined(lastStep.policy) /\ DecisionOf(lastStep.policy).Patch # Null
    /\ lastStep.err.Type = "OK"

-----------------------------------------------------------------------------
(* The provider of the response and the constraints at the end             *)

\* C26 as stated: the selected provider of a successful response satisfies
\* every service-provider constraint the context holds at the end of the
\* evaluation, those of policies evaluated after the selecting one included.
C26_ProviderSatisfiesFinalConstraints ==
    (Succeeded /\ response.SelectedProvider # "" /\ spConstraints.set) =>
        ProviderAdmitted(response.SelectedProvider)

-----------------------------------------------------------------------------
(* Satisfiability of the accumulated fragments                             *)

\* The fragment admits a value of the pool (numbers, strings and null).
Satisfiable(fragment) == \E v \in ValuePool : Admits(fragment, v)

\* C27 as stated: after any sequence of MergeConstraints calls, every field
\* path holds a fragment that admits some value; a merge that would leave a
\* fragment admitting no value (a const outside the enum, a minimum above
\* the maximum) fails instead.
C27_ConstraintsStaySatisfiable ==
    \A p \in DOMAIN fieldConstraints : Satisfiable(fieldConstraints[p])

-----------------------------------------------------------------------------
(* A MergeConstraints call that fails                                      *)

\* C29 as stated: a MergeConstraints call that returns a conflict leaves the
\* context as it was before the call: no fragment tightened or added, no
\* set_by recorded.
C29_AllOrNothing ==
    (mCalls > 0 /\ ~mLast.ok) =>
        /\ fieldConstraints = mLast.before
        /\ DOMAIN setBy = DOMAIN mLast.before

-----------------------------------------------------------------------------
(* The engine handler: request labels                                      *)

\* extractRequestLabels(spec): [ok, labels].  service_type is put first,
\* then every string entry of metadata.labels is assigned under its own key.
extractRequestLabels(spec) ==
    IF ~("service_type" \in DOMAIN spec /\ spec["service_type"].t = "str")
    THEN [ok |-> FALSE, labels |-> EmptyMap]
    ELSE LET labels ==
                 IF /\ "metadata" \in DOMAIN spec
                    /\ spec["metadata"].t = "map"
                    /\ "labels" \in DOMAIN spec["metadata"].m
                    /\ spec["metadata"].m["labels"].t = "map"
                 THEN spec["metadata"].m["labels"].m ELSE EmptyMap
             strKeys == {k \in DOMAIN labels : labels[k].t = "str"}
         IN  [ok |-> TRUE,
              labels |-> [k \in {"service_type"} \cup strKeys |->
                            IF k \in strKeys THEN labels[k].s
                            ELSE spec["service_type"].s]]

\* h.badRequest(err.Error())
BadRequest(detail) == [NoError EXCEPT !.Type = "BAD_REQUEST", !.Detail = detail]

\* The labels maps of the request bodies.
BodyLabels ==
    {[k \in {"env"} |-> Str("prod")],
     [k \in {"env"} |-> Num(1)],
     [k \in {"service_type"} |-> Str("db")],
     [k \in {"service_type"} |-> Num(2)],
     [k \in {"env", "service_type"} |-> IF k = "env" THEN Str("prod") ELSE Str("vm")]}

\* The metadata members of the request bodies, besides none.
BodyMetadata ==
    {Str("none"), Map(EmptyMap), Map([k \in {"labels"} |-> Str("none")])}
        \cup {Map([k \in {"labels"} |-> Map(l)]) : l \in BodyLabels}

\* The service_type members of the request bodies, besides none.
BodyServiceTypes == {Str("vm"), Str("db"), Num(1)}

\* The specs of the request bodies.
BodySpecs ==
    {EmptyMap}
        \cup {[k \in {"service_type"} |-> st] : st \in BodyServiceTypes}
        \cup {[k \in {"metadata"} |-> md] : md \in BodyMetadata}
        \cup {[k \in {"service_type", "metadata"} |-> IF k = "metadata" THEN md ELSE st] :
                  st \in BodyServiceTypes, md \in BodyMetadata}

VmSelector == [k \in {"service_type"} |-> "vm"]

\* The results of the runtime in the handler's specification.
HandlerResults ==
    {Undefined, Defined([k \in {"patch"} |-> Map([x \in {"cpu"} |-> Num(1)])])}

\* The handler has received the body; the labels are not extracted yet.
InitHandler ==
    /\ \E spec \in BodySpecs, rt \in [Ids -> HandlerResults] :
          InitRequest(CatalogOf({}, VmSelector), rt, EvaluationRequest(spec, EmptyMap))
    /\ IdlePatch /\ IdleCalls /\ IdleService /\ IdleMerge

\* Handler.EvaluateRequest up to the call of the evaluation service:
\* toServiceEvaluationRequest, and the bad-request answer when it fails.
HandlerConvert ==
    /\ ePc = "list" /\ lastStep = NoStep
    /\ \E r \in {extractRequestLabels(req.ServiceInstance)} :
          IF r.ok
          THEN /\ req' = EvaluationRequest(req.ServiceInstance, r.labels)
               /\ lastStep' = [NoStep EXCEPT !.kind = "convert"]
               /\ UNCHANGED <<ePc, response>>
          ELSE /\ response' = ErrorResponse(BadRequest("service type is required"))
               /\ lastStep' = [NoStep EXCEPT !.kind = "convert"]
               /\ ePc' = "done"
               /\ UNCHANGED req
    /\ UNCHANGED <<pageToken, page, nextPageToken, idx, currentSpec, selectedProvider,
                   invoked, visited, writes, steady>>
    /\ UNCHANGED <<ctxVars, storeVars, svcVars, patchVars, callVars, mergeVars>>

\* The evaluation service runs once the request is converted.
Converted == lastStep # NoStep

NextHandler ==
    \/ HandlerConvert
    \/ Converted /\ ListPage
    \/ Converted /\ ListFails
    \/ Converted /\ SkipPolicy
    \/ Converted /\ EvaluatePolicyStep
    \/ Converted /\ NextPage
    \/ Converted /\ Finish

SpecHandler == InitHandler /\ [][NextHandler]_vars

\* C28 as stated: once the request is converted, a spec without a string
\* service_type has been refused with no policy evaluated, and otherwise
\* the request label service_type is the string of spec.service_type
\* whatever metadata.labels holds, and the other labels are the string
\* entries of metadata.labels.
C28_ServiceTypeLabel ==
    Converted =>
        IF "service_type" \in DOMAIN req.ServiceInstance
           /\ req.ServiceInstance["service_type"].t = "str"
        THEN /\ "service_type" \in DOMAIN req.RequestLabels
             /\ req.RequestLabels["service_type"] = req.ServiceInstance["service_type"].s
        ELSE /\ ePc = "done"
             /\ response.err.Type = "BAD_REQUEST"
             /\ invoked = <<>> /\ visited = <<>>

-----------------------------------------------------------------------------
(* runServers: the public API server and the engine API server             *)

\* The servers handed to runServers, in the order of the slice.
ServerSeq == <<"public", "engine">>

Servers == Range(ServerSeq)

\* errChan := make(chan error, len(servers))
ErrChanCap == Len(ServerSeq)

\* A wait that returns while goroutines are still running.
WaitReturnsAtOnce(wg) == TRUE

\* wg.Wait() returns.
WaitReturns(wg) == wg = 0

\* The error a server's Run returns, "" for nil.
RunError(server) == "failed to serve " \o server

\* runServers has set up the signal context, the wait group and the channel.
InitServers ==
    /\ lifecycle = [run |-> [s \in Servers |-> "unstarted"],
                    outcome |-> [s \in Servers |-> "none"],
                    wg |-> 0, errChan |-> <<>>, closer |-> "unstarted",
                    cancelled |-> FALSE, signalled |-> FALSE,
                    main |-> "spawn", firstErr |-> "", received |-> <<>>,
                    result |-> ""]
    /\ svcOps = 0 /\ svcLast = <<>>
    /\ IdleContext /\ IdlePatch /\ IdleMerge /\ IdleStore /\ IdleEvaluation /\ IdleCalls

OthersUnchanged ==
    UNCHANGED <<svcOps, svcLast, ctxVars, patchVars, callVars, mergeVars, storeVars, evalVars>>

\* One iteration of the loop over servers: wg.Add(1); go func(server) {...}.
Spawn ==
    /\ lifecycle.main = "spawn"
    /\ \E i \in 1..Len(ServerSeq) :
          /\ lifecycle.run[ServerSeq[i]] = "unstarted"
          /\ \A j \in 1..(i - 1) : lifecycle.run[ServerSeq[j]] # "unstarted"
          /\ lifecycle' = [lifecycle EXCEPT !.run[ServerSeq[i]] = "running",
                                            !.wg = lifecycle.wg + 1]
    /\ OthersUnchanged

\* After the loop: go func() { wg.Wait(); close(errChan) }(), then the range.
StartCloser ==
    /\ lifecycle.main = "spawn"
    /\ \A s \in Servers : lifecycle.run[s] # "unstarted"
    /\ lifecycle' = [lifecycle EXCEPT !.closer = "waiting", !.main = "range"]
    /\ OthersUnchanged

\* server.Run returns an error (the swagger spec fails to load, Serve fails).
RunFails ==
    /\ \E s \in Servers :
          /\ lifecycle.run[s] = "running"
          /\ lifecycle' = [lifecycle EXCEPT !.run[s] = "sending", !.outcome[s] = "err"]
    /\ OthersUnchanged

\* server.Run returns nil: the context is done, Shutdown made Serve return
\* http.ErrServerClosed.
RunStops ==
    /\ \E s \in Servers :
          /\ lifecycle.run[s] = "running"
          /\ lifecycle.cancelled
          /\ lifecycle' = [lifecycle EXCEPT !.run[s] = "exiting", !.outcome[s] = "nil"]
    /\ OthersUnchanged

\* errChan <- err: possible while the buffer has room.
SendErr ==
    /\ \E s \in Servers :
          /\ lifecycle.run[s] = "sending"
          /\ Len(lifecycle.errChan) < ErrChanCap
          /\ lifecycle' = [lifecycle EXCEPT !.run[s] = "exiting",
                                            !.errChan = Append(lifecycle.errChan, RunError(s))]
    /\ OthersUnchanged

\* defer wg.Done()
WgDone ==
    /\ \E s \in Servers :
          /\ lifecycle.run[s] = "exiting"
          /\ lifecycle' = [lifecycle EXCEPT !.run[s] = "done", !.wg = lifecycle.wg - 1]
    /\ OthersUnchanged

\* wg.Wait() returns in the closing goroutine; close(errChan).
CloseErrChan ==
    /\ lifecycle.closer = "waiting"
    /\ WaitReturns(lifecycle.wg)
    /\ lifecycle' = [lifecycle EXCEPT !.closer = "closed"]
    /\ OthersUnchanged

\* One iteration of for err := range errChan.
Receive ==
    /\ lifecycle.main = "range"
    /\ lifecycle.errChan # <<>>
    /\ lifecycle' =
          [lifecycle EXCEPT
              !.errChan = Tail(lifecycle.errChan),
              !.received = Append(lifecycle.received, Head(lifecycle.errChan)),
              !.firstErr = IF lifecycle.firstErr = "" THEN Head(lifecycle.errChan)
                           ELSE lifecycle.firstErr,
              !.cancelled = lifecycle.cancelled \/ lifecycle.firstErr = ""]
    /\ OthersUnchanged

\* The range ends on the closed, drained channel: return firstErr, with the
\* deferred cancel.
Return ==
    /\ lifecycle.main = "range"
    /\ lifecycle.errChan = <<>>
    /\ lifecycle.closer = "closed"
    /\ lifecycle' = [lifecycle EXCEPT !.main = "returned", !.result = lifecycle.firstErr,
                                      !.cancelled = TRUE]
    /\ OthersUnchanged

\* os.Interrupt or SIGTERM arrives: the signal context is done.
Signal ==
    /\ lifecycle.main # "returned"
    /\ ~lifecycle.signalled
    /\ lifecycle' = [lifecycle EXCEPT !.signalled = TRUE, !.cancelled = TRUE]
    /\ OthersUnchanged

NextServers ==
    \/ Spawn \/ StartCloser \/ RunFails \/ RunStops \/ SendErr \/ WgDone
    \/ CloseErrChan \/ Receive \/ Return \/ Signal

\* Goroutines that can take a step take it; a failure of Run and a signal
\* are not forced to happen.
FairServers ==
    /\ WF_vars(Spawn) /\ WF_vars(StartCloser) /\ WF_vars(RunStops) /\ WF_vars(SendErr)
    /\ WF_vars(WgDone) /\ WF_vars(CloseErrChan) /\ WF_vars(Receive) /\ WF_vars(Return)

SpecServers == InitServers /\ [][NextServers]_vars /\ FairServers

Returned == lifecycle.main = "returned"

\* C30: runServers returns only after the Run of every server has returned
\* (and its goroutine has finished); the value returned is the first error
\* received, or nil when every Run returned nil; once an error is received
\* the shared context is cancelled; a goroutine that has an error to send
\* always finds room in the channel; and once a Run has returned an error,
\* runServers does return.
C30_ServerLifecycle ==
    /\ [](Returned =>
            /\ \A s \in Servers : lifecycle.run[s] = "done" /\ lifecycle.outcome[s] # "none"
            /\ lifecycle.result =
                  (IF lifecycle.received = <<>> THEN "" ELSE lifecycle.received[1])
            /\ Len(lifecycle.received) =
                  Cardinality({s \in Servers : lifecycle.outcome[s] = "err"})
            /\ (\A s \in Servers : lifecycle.outcome[s] = "nil") => lifecycle.result = "")
    /\ [](lifecycle.firstErr # "" => lifecycle.cancelled)
    /\ [](\A s \in Servers :
            lifecycle.run[s] = "sending" => Len(lifecycle.errChan) < ErrChanCap)
    /\ ((\E s \in Servers : lifecycle.outcome[s] = "err") ~> Returned)

\* runServers returned the error of the engine server after the public
\* server, which failed later, had its error received too.
C30_Witness ==
    /\ Returned
    /\ lifecycle.received = <<RunError("engine"), RunError("public")>>
    /\ lifecycle.result = RunError("engine")

\* runServers returned nil after a signal stopped both servers.
C30_WitnessShutdown ==
    /\ Returned
    /\ lifecycle.signalled
    /\ \A s \in Servers : lifecycle.outcome[s] = "nil"
    /\ lifecycle.result = ""
====
